---------------------------- MODULE Spec2Model ----------------------------
(***************************************************************************)
(* Model of the Clash Royale analytics engine:                             *)
(*   src/src/analytics/deck_type.py      archetype classifier and the      *)
(*                                       deck-type summarizer              *)
(*   src/src/analytics/user_analytics.py summary, card and deck engines    *)
(*   src/src/workflows/phase2_qna_workflow.py  the coach graph and the     *)
(*                                       question classifier node          *)
(*   src/src/workflows/meta_workflow.py  the node fetching meta battles    *)
(*                                                                         *)
(* Conventions of the translation                                          *)
(*  - A Python dict that is iterated (stats, my_decks, my_raw, ...) is a   *)
(*    sequence of buckets in insertion order, the order Python iterates.   *)
(*  - A float win rate wins / games is the fraction in lowest terms        *)
(*    <<num, den>>; IEEE division is correctly rounded, so two such floats *)
(*    are equal or ordered exactly as the fractions are.                   *)
(*  - avg_elixir = sum / 8.0 is kept as the integer 8 * avg_elixir         *)
(*    (division by 8 is exact in binary floating point).                   *)
(*  - An optional value (dict.get returning None) is a sequence of length  *)
(*    0 or 1.                                                              *)
(***************************************************************************)
EXTENDS Integers, Sequences, FiniteSets, TLC

VARIABLES
    \* ---- deck_type.py, module state
    _CARD_META_BY_NAME,   \* the metadata table, loaded once at import
    \* ---- one call of classify_deck
    cards,                \* the argument
    v,                    \* <<>> until _precompute_deck_values has run, then <<values>>
    deck_type,            \* <<>> until the call has returned, then <<label>>
    \* ---- one call of compute_user_analytics
    pc,                   \* position in compute_user_analytics
    battles_normalized,   \* the argument
    min_card_games,       \* the argument
    min_deck_games,       \* the argument
    summary,              \* compute_summary's result
    stats_my,             \* _card_stats_from_rows' stats dict, rows_my call
    stats_opp,            \* _card_stats_from_rows' stats dict, rows_opp call
    card_stats,           \* compute_card_performance's result
    my_decks,             \* compute_deck_performance's my_decks dict
    opp_decks,            \* compute_deck_performance's opp_decks dict
    deck_stats,           \* compute_deck_performance's result
    my_raw,               \* summarize_deck_types' my_raw dict
    opp_raw,              \* summarize_deck_types' opp_raw dict
    my_deck_types,        \* summarize_deck_types' first result
    opp_deck_types,       \* summarize_deck_types' second result
    raised,               \* <<>>, or <<exception>> once the call has raised
    \* ---- the caller of compute_user_analytics
    returned,             \* the calls that have returned, in order, as <<arguments, analytics>>
    \* ---- phase2_qna_workflow.py, one run of the coach graph
    coach_node,           \* the node the graph runs next, "END", or "raised"
    coach_state,          \* the CoachState: which keys are set, and the question
    coach_ran,            \* the nodes that have run, in order: [node, question, returned]
    \* ---- meta_workflow.py, one call of fetch_meta_battles_node
    fetch_pc,             \* position in fetch_meta_battles_node
    meta_state,           \* the MetaState: selected_players, fetched_player_tags,
                          \*   meta_raw_battles, notes
    fetched,              \* the local set of fetched tags
    meta_raw,             \* the local list of battles
    notes,                \* the local list of notes
    new_players,          \* the local counter of players tried
    new_battles,          \* the local counter of battles added
    p_index,              \* how many entries of selected the loop has passed
    fetch_log,            \* the calls of get_player_battlelog, in order, as [tag, ok]
    \* ---- phase2_qna_workflow.py, one call of classify_question_node
    question_pc,          \* position in classify_question_node
    raw_reply,            \* raw: what chat_completion did (raised, or the text it returned)
    question_state,       \* the QnAState: question_category, question_data_needs, notes
    question_raised       \* <<>>, or <<exception>> once the node has raised

classifier_vars == <<cards, v, deck_type>>
analytics_vars ==
    <<pc, battles_normalized, min_card_games, min_deck_games, summary,
      stats_my, stats_opp, card_stats, my_decks, opp_decks, deck_stats,
      my_raw, opp_raw, my_deck_types, opp_deck_types, raised, returned>>
coach_vars == <<coach_node, coach_state, coach_ran>>
fetch_vars ==
    <<fetch_pc, meta_state, fetched, meta_raw, notes, new_players, new_battles,
      p_index, fetch_log>>
question_vars == <<question_pc, raw_reply, question_state, question_raised>>
workflow_vars == <<coach_vars, fetch_vars, question_vars>>
vars == <<_CARD_META_BY_NAME, classifier_vars, analytics_vars, workflow_vars>>

----------------------------------------------------------------------------
(* Bounds of the checked instances *)

\* longest deck handed to classify_deck in SpecClassify
MaxDeckLen == 4
\* longest battle list handed to compute_user_analytics in Spec
MaxBattles == 3

----------------------------------------------------------------------------
(* Generic sequence helpers (Python built-ins) *)

\* sum(xs)
RECURSIVE sum(_)
sum(xs) == IF xs = <<>> THEN 0 ELSE Head(xs) + sum(Tail(xs))

\* list(reversed(xs))
reversed(xs) == [i \in 1..Len(xs) |-> xs[Len(xs) + 1 - i]]

\* xs[:n]
take(xs, n) == SubSeq(xs, 1, IF Len(xs) < n THEN Len(xs) ELSE n)

----------------------------------------------------------------------------
(* Card names and the metadata table                                       *)

\* The card names of the checked decks, in Python's string order (the order
\* sorted() gives them).
CardNames ==
    <<"Bandit", "Goblin Barrel", "Goblin Gang", "Golem", "Mortar",
      "Skeletons", "Unknown Card", "X-Bow">>

CardNameSet == {CardNames[i] : i \in 1..Len(CardNames)}

\* Python's str comparison on these names
name_rank(c) == CHOOSE i \in 1..Len(CardNames) : CardNames[i] = c
name_lt(a, b) == name_rank(a) < name_rank(b)

meta(e, bait, spam, tank) ==
    [elixir |-> e, is_bait_piece |-> bait,
     is_bridge_spam_piece |-> spam, is_big_tank |-> tank]

\* `{}`: what dict.get(card_name, {}) returns for a name with no entry
EmptyMeta == meta(<<>>, FALSE, FALSE, FALSE)

\* The metadata tables of the checked instances: data/card_metadata.json is
\* data, not code, so it is an input.  "Unknown Card" never has an entry;
\* "Goblin Barrel" carries the is_bait_piece flag or not, and "X-Bow" has an
\* entry or not.
MetaTable(barrel_is_bait, xbow_known) ==
    LET base ==
          [c \in CardNameSet \ {"Unknown Card", "X-Bow"} |->
             CASE c = "Bandit"        -> meta(<<3>>, FALSE, TRUE, FALSE)
               [] c = "Goblin Barrel" -> meta(<<3>>, barrel_is_bait, FALSE, FALSE)
               [] c = "Goblin Gang"   -> meta(<<3>>, TRUE, FALSE, FALSE)
               [] c = "Golem"         -> meta(<<8>>, FALSE, FALSE, TRUE)
               [] c = "Mortar"        -> meta(<<4>>, FALSE, FALSE, FALSE)
               [] c = "Skeletons"     -> meta(<<1>>, FALSE, FALSE, FALSE)]
    IN IF xbow_known
       THEN [c \in DOMAIN base \cup {"X-Bow"} |->
               IF c = "X-Bow" THEN meta(<<6>>, FALSE, FALSE, FALSE) ELSE base[c]]
       ELSE base

MetaTables == {MetaTable(b, x) : b \in BOOLEAN, x \in BOOLEAN}

\* Mutant of _get_card_meta: a card without an entry costs 0 elixir.
_get_card_meta_zero_elixir(card_name) ==
    IF card_name \in DOMAIN _CARD_META_BY_NAME
    THEN _CARD_META_BY_NAME[card_name]
    ELSE meta(<<0>>, FALSE, FALSE, FALSE)

\* _get_card_meta(card_name)
_get_card_meta(card_name) ==
    IF card_name \in DOMAIN _CARD_META_BY_NAME
    THEN _CARD_META_BY_NAME[card_name]
    ELSE EmptyMeta

----------------------------------------------------------------------------
(* Archetype constants *)

ARCHETYPE_SIEGE == "Siege"
ARCHETYPE_BAIT == "Bait"
ARCHETYPE_CYCLE == "Cycle"
ARCHETYPE_BRIDGE_SPAM == "Bridge Spam"
ARCHETYPE_BEATDOWN == "Beatdown"
ARCHETYPE_HYBRID == "Hybrid"

_SIEGE_XBOW == {"X-Bow"}
_SIEGE_MORTAR == {"Mortar"}

----------------------------------------------------------------------------
(* _precompute_deck_values *)

\* sum(1 for m in metas if m.get(flag))
count_flag(metas, flag) == Cardinality({i \in 1..Len(metas) : metas[i][flag]})

\* sorted(elixirs): a stable insertion sort, ascending
sorted_numbers(xs) ==
    LET sorted_prefix[i \in 0..Len(xs)] ==
          IF i = 0 THEN <<>>
          ELSE LET acc == sorted_prefix[i - 1]
                   k == Cardinality({j \in 1..Len(acc) : acc[j] <= xs[i]})
               IN SubSeq(acc, 1, k) \o <<xs[i]>> \o SubSeq(acc, k + 1, Len(acc))
    IN sorted_prefix[Len(xs)]

\* [m["elixir"] for m in metas if isinstance(m.get("elixir"), (int, float))]
RECURSIVE known_elixirs(_)
known_elixirs(metas) ==
    IF metas = <<>> THEN <<>>
    ELSE Head(metas).elixir \o known_elixirs(Tail(metas))

\* Mutant of four_lowest_sum: the first four values, not sorted.
four_first_sum(elixirs) == sum(take(elixirs, 4))

\* sum(sorted(elixirs)[:4])
four_lowest_sum(elixirs) == sum(take(sorted_numbers(elixirs), 4))

\* Mutant of _precompute_deck_values: avg_elixir divided by the number of
\* known elixir values instead of 8.0.
_precompute_deck_values_avg_by_count(cs) ==
    LET metas == [i \in 1..Len(cs) |-> _get_card_meta(cs[i])]
        elixirs == known_elixirs(metas)
        names_set == {cs[i] : i \in 1..Len(cs)}
        bait_pieces == count_flag(metas, "is_bait_piece")
        has_goblin_barrel == "Goblin Barrel" \in names_set
    IN [avg_elixir_x8 |->
            IF Len(elixirs) = 0 THEN 3 * 8
            ELSE (8 * sum(elixirs)) \div Len(elixirs),
        four_card_cycle_cost |->
            IF Len(elixirs) = 0 THEN 12 ELSE four_lowest_sum(elixirs),
        has_xbow |-> Cardinality(names_set \cap _SIEGE_XBOW) > 0,
        has_mortar |-> Cardinality(names_set \cap _SIEGE_MORTAR) > 0,
        bait_pieces |-> bait_pieces,
        has_bait_core |-> IF has_goblin_barrel THEN bait_pieces >= 1 ELSE FALSE,
        bridge_spam_count |-> count_flag(metas, "is_bridge_spam_piece"),
        big_tank_count |-> count_flag(metas, "is_big_tank")]

\* Mutant of _precompute_deck_values: "Goblin Barrel" makes the bait core
\* by its name alone.
_precompute_deck_values_barrel_is_core(cs) ==
    LET metas == [i \in 1..Len(cs) |-> _get_card_meta(cs[i])]
        elixirs == known_elixirs(metas)
        names_set == {cs[i] : i \in 1..Len(cs)}
        bait_pieces == count_flag(metas, "is_bait_piece")
        has_goblin_barrel == "Goblin Barrel" \in names_set
    IN [avg_elixir_x8 |-> IF Len(elixirs) = 0 THEN 3 * 8 ELSE sum(elixirs),
        four_card_cycle_cost |->
            IF Len(elixirs) = 0 THEN 12 ELSE four_lowest_sum(elixirs),
        has_xbow |-> Cardinality(names_set \cap _SIEGE_XBOW) > 0,
        has_mortar |-> Cardinality(names_set \cap _SIEGE_MORTAR) > 0,
        bait_pieces |-> IF has_goblin_barrel /\ bait_pieces = 0 THEN 1 ELSE bait_pieces,
        has_bait_core |-> has_goblin_barrel,
        bridge_spam_count |-> count_flag(metas, "is_bridge_spam_piece"),
        big_tank_count |-> count_flag(metas, "is_big_tank")]

_precompute_deck_values(cs) ==
    LET metas == [i \in 1..Len(cs) |-> _get_card_meta(cs[i])]
        elixirs == known_elixirs(metas)
        names_set == {cs[i] : i \in 1..Len(cs)}
        bait_pieces == count_flag(metas, "is_bait_piece")
        has_goblin_barrel == "Goblin Barrel" \in names_set
    IN [avg_elixir_x8 |-> IF Len(elixirs) = 0 THEN 3 * 8 ELSE sum(elixirs),
        four_card_cycle_cost |->
            IF Len(elixirs) = 0 THEN 12 ELSE four_lowest_sum(elixirs),
        has_xbow |-> Cardinality(names_set \cap _SIEGE_XBOW) > 0,
        has_mortar |-> Cardinality(names_set \cap _SIEGE_MORTAR) > 0,
        bait_pieces |-> bait_pieces,
        has_bait_core |-> IF has_goblin_barrel THEN bait_pieces >= 1 ELSE FALSE,
        bridge_spam_count |-> count_flag(metas, "is_bridge_spam_piece"),
        big_tank_count |-> count_flag(metas, "is_big_tank")]

----------------------------------------------------------------------------
(* classify_deck *)

\* Mutant of not_cards: the early return of lines 105-106 left out.
not_cards_never(cs) == FALSE

\* `not cards`: the empty deck returns before anything is computed
not_cards(cs) == Len(cs) = 0

\* Mutant of classify_rules: the Beatdown rule tried first.
classify_rules_beatdown_first(w) ==
    IF w.big_tank_count >= 1 /\ 2 * w.avg_elixir_x8 >= 7 * 8
    THEN ARCHETYPE_BEATDOWN
    ELSE IF w.has_xbow THEN ARCHETYPE_SIEGE
    ELSE IF w.has_mortar THEN ARCHETYPE_SIEGE
    ELSE IF w.has_bait_core /\ w.bait_pieces >= 1 THEN ARCHETYPE_BAIT
    ELSE IF w.four_card_cycle_cost <= 9 THEN ARCHETYPE_CYCLE
    ELSE IF w.bridge_spam_count >= 2 THEN ARCHETYPE_BRIDGE_SPAM
    ELSE ARCHETYPE_HYBRID

\* Mutant of classify_rules: the Mortar rule (S2) left out.
classify_rules_no_mortar(w) ==
    IF w.has_xbow THEN ARCHETYPE_SIEGE
    ELSE IF w.has_bait_core /\ w.bait_pieces >= 1 THEN ARCHETYPE_BAIT
    ELSE IF w.four_card_cycle_cost <= 9 THEN ARCHETYPE_CYCLE
    ELSE IF w.bridge_spam_count >= 2 THEN ARCHETYPE_BRIDGE_SPAM
    ELSE IF w.big_tank_count >= 1 /\ 2 * w.avg_elixir_x8 >= 7 * 8
         THEN ARCHETYPE_BEATDOWN
    ELSE ARCHETYPE_HYBRID

\* the rule cascade, lines 119-161.  avg_elixir >= 3.5 is
\* 2 * (8 * avg_elixir) >= 7 * 8.
classify_rules(w) ==
    IF w.has_xbow THEN ARCHETYPE_SIEGE
    ELSE IF w.has_mortar THEN ARCHETYPE_SIEGE
    ELSE IF w.has_bait_core /\ w.bait_pieces >= 1 THEN ARCHETYPE_BAIT
    ELSE IF w.four_card_cycle_cost <= 9 THEN ARCHETYPE_CYCLE
    ELSE IF w.bridge_spam_count >= 2 THEN ARCHETYPE_BRIDGE_SPAM
    ELSE IF w.big_tank_count >= 1 /\ 2 * w.avg_elixir_x8 >= 7 * 8
         THEN ARCHETYPE_BEATDOWN
    ELSE ARCHETYPE_HYBRID

\* classify_deck as a function, for its callers
classify_deck(cs) ==
    IF not_cards(cs) THEN ARCHETYPE_HYBRID
    ELSE classify_rules(_precompute_deck_values(cs))

\* All decks of at most n cards
Decks(names, n) == UNION {[1..k -> names] : k \in 0..n}

\* classify_deck(cards), the early return of lines 105-106
classify_deck_empty ==
    /\ deck_type = <<>>
    /\ not_cards(cards)
    /\ deck_type' = <<ARCHETYPE_HYBRID>>
    /\ UNCHANGED <<workflow_vars, _CARD_META_BY_NAME, cards, v, analytics_vars>>

\* classify_deck(cards), lines 108-161
classify_deck_rules ==
    /\ deck_type = <<>>
    /\ ~not_cards(cards)
    /\ v' = <<_precompute_deck_values(cards)>>
    /\ deck_type' = <<classify_rules(v'[1])>>
    /\ UNCHANGED <<workflow_vars, _CARD_META_BY_NAME, cards, analytics_vars>>

----------------------------------------------------------------------------
(* Stat buckets and win rates *)

RECURSIVE gcd(_, _)
gcd(a, b) == IF b = 0 THEN a ELSE gcd(b, a % b)

\* Mutant of win_rate_of: the floor division wins // games.
win_rate_of_floor(wins, games) ==
    IF games > 0 THEN <<wins \div games, 1>> ELSE <<0, 1>>

\* wins / games if games > 0 else 0.0, as the fraction in lowest terms
win_rate_of(wins, games) ==
    IF games > 0
    THEN LET g == gcd(wins, games) IN <<wins \div g, games \div g>>
    ELSE <<0, 1>>

\* float comparison of two win rates
rate_lt(a, b) == a[1] * b[2] < b[1] * a[2]

\* the defaultdict factory: lambda: {"games": 0, "wins": 0, "losses": 0, "draws": 0}
new_bucket(key) == [key |-> key, games |-> 0, wins |-> 0, losses |-> 0, draws |-> 0]

\* Mutant of count_result: the final `else` taken for "draw" only, so that
\* a result that is none of the three counts as a game and nothing else.
count_result_known_only(s, result) ==
    IF result = "win"
    THEN [s EXCEPT !.games = @ + 1, !.wins = @ + 1]
    ELSE IF result = "loss"
    THEN [s EXCEPT !.games = @ + 1, !.losses = @ + 1]
    ELSE IF result = "draw"
    THEN [s EXCEPT !.games = @ + 1, !.draws = @ + 1]
    ELSE [s EXCEPT !.games = @ + 1]

\* s["games"] += 1; then wins, losses or draws += 1 by the result
count_result(s, result) ==
    IF result = "win"
    THEN [s EXCEPT !.games = @ + 1, !.wins = @ + 1]
    ELSE IF result = "loss"
    THEN [s EXCEPT !.games = @ + 1, !.losses = @ + 1]
    ELSE [s EXCEPT !.games = @ + 1, !.draws = @ + 1]

\* Mutant of count_result_opp: the opponent deck bucket updated with the
\* player's own result.
count_result_opp_same(s, result) ==
    IF result = "win"
    THEN [s EXCEPT !.games = @ + 1, !.wins = @ + 1]
    ELSE IF result = "loss"
    THEN [s EXCEPT !.games = @ + 1, !.losses = @ + 1]
    ELSE [s EXCEPT !.games = @ + 1, !.draws = @ + 1]

\* the opponent-side update of compute_deck_performance, lines 188-195
count_result_opp(s, result) ==
    IF result = "win"
    THEN [s EXCEPT !.games = @ + 1, !.losses = @ + 1]
    ELSE IF result = "loss"
    THEN [s EXCEPT !.games = @ + 1, !.wins = @ + 1]
    ELSE [s EXCEPT !.games = @ + 1, !.draws = @ + 1]

has_key(d, key) == \E i \in 1..Len(d) : d[i].key = key
index_of(d, key) == CHOOSE i \in 1..Len(d) : d[i].key = key

\* s = stats[key] on a defaultdict: the bucket of key, created at the end of
\* the dict when the key is new
with_key(d, key) == IF has_key(d, key) THEN d ELSE Append(d, new_bucket(key))

----------------------------------------------------------------------------
(* build_battles_dataframe and compute_summary *)

\* A battle dict. keys says of each of "result", "my_cards", "opp_cards"
\* whether the dict has the key with a value ("set"), has it with None
\* ("None") or lacks it ("missing"). The fields result, my_cards, opp_cards
\* hold the value of a key that is "set"; for a key that is not, they hold
\* what the readings that do not raise make of it: "" for result
\* ((b.get("result") or "") in summarize_deck_types; the None and NaN the
\* other engines read are equal to no result string either) and <<>> for
\* the cards (`or []`, and the default of get).
KeyStates == {"set", "None", "missing"}
AllSet == [result |-> "set", my_cards |-> "set", opp_cards |-> "set"]

\* The cell of a frame column in row i: the value of the key; None where
\* the dict has None; NaN where the dict lacks a key another dict has
\* (pd.DataFrame fills the missing keys of a list of dicts with NaN); None
\* where no dict has the key (lines 31-33 add the column as None).
frame_cell(battles, i, col) ==
    IF battles[i].keys[col] = "set" THEN "value"
    ELSE IF battles[i].keys[col] = "None" THEN "None"
    ELSE IF \E j \in 1..Len(battles) : battles[j].keys[col] # "missing"
    THEN "NaN"
    ELSE "None"

\* The frame's rows: one per battle, with the battle's values and, in
\* cells, what each cell is.
build_battles_dataframe(battles) ==
    [i \in 1..Len(battles) |->
        [result |-> battles[i].result,
         my_cards |-> battles[i].my_cards,
         opp_cards |-> battles[i].opp_cards,
         cells |-> [col \in {"result", "my_cards", "opp_cards"} |->
                       frame_cell(battles, i, col)]]]

\* int((df["result"] == value).sum())
count_results(df, value) == Cardinality({i \in 1..Len(df) : df[i].result = value})

\* Mutant of compute_summary: no early return for the empty frame, and the
\* win rate divided without the guard (0 / 0 on the empty frame).
compute_summary_unguarded(df) ==
    LET total_games == Len(df)
        wins == count_results(df, "win")
    IN [games_played |-> total_games,
        wins |-> wins,
        losses |-> count_results(df, "loss"),
        draws |-> count_results(df, "draw"),
        win_rate |-> IF total_games = 0 THEN <<0, 0>>
                     ELSE win_rate_of(wins, total_games)]

compute_summary(df) ==
    LET total_games == Len(df)
        wins == count_results(df, "win")
    IN IF total_games = 0
       THEN [games_played |-> 0, wins |-> 0, losses |-> 0, draws |-> 0,
             win_rate |-> <<0, 1>>]
       ELSE [games_played |-> total_games,
             wins |-> wins,
             losses |-> count_results(df, "loss"),
             draws |-> count_results(df, "draw"),
             win_rate |-> win_rate_of(wins, total_games)]

----------------------------------------------------------------------------
(* Card-level stats *)

\* Mutant of key_lt: the sort key is the win rate alone.
key_lt_rate_only(x, y) == rate_lt(x.win_rate, y.win_rate)

\* the sort key (x["win_rate"], x["games"]), compared as Python compares tuples
key_lt(x, y) ==
    \/ rate_lt(x.win_rate, y.win_rate)
    \/ x.win_rate = y.win_rate /\ x.games < y.games

\* out.sort(key=lambda x: (x["win_rate"], x["games"]), reverse=sort_desc):
\* list.sort is stable, also with reverse=True, so an entry goes behind
\* every entry it is not strictly before in the order asked for
sort_by_rate_games(out, sort_desc) ==
    LET before(x, y) == IF sort_desc THEN key_lt(y, x) ELSE key_lt(x, y)
        sorted_prefix[i \in 0..Len(out)] ==
          IF i = 0 THEN <<>>
          ELSE LET acc == sorted_prefix[i - 1]
                   k == Cardinality({j \in 1..Len(acc) : ~before(out[i], acc[j])})
               IN SubSeq(acc, 1, k) \o <<out[i]>> \o SubSeq(acc, k + 1, Len(acc))
    IN sorted_prefix[Len(out)]

\* one iteration of the loop of lines 84-94
card_stats_step(stats, row) ==
    LET d == with_key(stats, row.card)
    IN [d EXCEPT ![index_of(d, row.card)] = count_result(@, row.result)]

\* the loop of lines 84-94 over the rows, continued from stats
RECURSIVE card_stats_from(_, _)
card_stats_from(stats, rows) ==
    IF rows = <<>> THEN stats
    ELSE card_stats_from(card_stats_step(stats, Head(rows)), Tail(rows))

\* the loop of lines 84-94 over the rows, from the empty stats dict
card_stats_loop(rows) == card_stats_from(<<>>, rows)

\* Mutant of below_min_games: `<=` for `<`.
below_min_games_inclusive(s, min_games) == s.games <= min_games

\* `if s["games"] < min_games: continue`
below_min_games(s, min_games) == s.games < min_games

\* the kept buckets of a stats dict, in the dict's order
RECURSIVE kept_buckets(_, _)
kept_buckets(d, min_games) ==
    IF d = <<>> THEN <<>>
    ELSE IF below_min_games(Head(d), min_games)
    THEN kept_buckets(Tail(d), min_games)
    ELSE <<Head(d)>> \o kept_buckets(Tail(d), min_games)

card_entry(s) ==
    [card |-> s.key, games |-> s.games, wins |-> s.wins, losses |-> s.losses,
     draws |-> s.draws, win_rate |-> win_rate_of(s.wins, s.games)]

\* lines 96-113: filter, win rate, sort
card_stats_out(stats, min_games, sort_desc) ==
    LET kept == kept_buckets(stats, min_games)
    IN sort_by_rate_games([i \in 1..Len(kept) |-> card_entry(kept[i])], sort_desc)

_card_stats_from_rows(rows, min_games, sort_desc) ==
    card_stats_out(card_stats_loop(rows), min_games, sort_desc)

\* Mutant of opp_result_of: the result passed on without inversion.
opp_result_same(result) ==
    IF result = "win" THEN "win"
    ELSE IF result = "loss" THEN "loss"
    ELSE "draw"

\* lines 132-137
opp_result_of(result) ==
    IF result = "win" THEN "loss"
    ELSE IF result = "loss" THEN "win"
    ELSE "draw"

\* Mutant of rows_my_of: the rows built from opp_cards.
RECURSIVE rows_my_from_opp_cards(_)
rows_my_from_opp_cards(df) ==
    IF df = <<>> THEN <<>>
    ELSE [i \in 1..Len(Head(df).opp_cards) |->
             [card |-> Head(df).opp_cards[i], result |-> Head(df).result]]
         \o rows_my_from_opp_cards(Tail(df))

\* rows_my: for each frame row, for each card of my_cards, {card, result}
RECURSIVE rows_my_of(_)
rows_my_of(df) ==
    IF df = <<>> THEN <<>>
    ELSE [i \in 1..Len(Head(df).my_cards) |->
             [card |-> Head(df).my_cards[i], result |-> Head(df).result]]
         \o rows_my_of(Tail(df))

\* rows_opp: for each frame row, for each card of opp_cards, {card, opp_result}
RECURSIVE rows_opp_of(_)
rows_opp_of(df) ==
    IF df = <<>> THEN <<>>
    ELSE [i \in 1..Len(Head(df).opp_cards) |->
             [card |-> Head(df).opp_cards[i],
              result |-> opp_result_of(Head(df).result)]]
         \o rows_opp_of(Tail(df))

\* `for card in row.get("my_cards", []) or []` (lines 128, 131): the row has
\* the column, so get returns the cell; None gives [], NaN is truthy and
\* iterating a float raises TypeError
card_cells_raise(row) ==
    row.cells["my_cards"] = "NaN" \/ row.cells["opp_cards"] = "NaN"

\* the loop of lines 125-138 raises at the first row with such a cell
card_performance_raises(df) == \E i \in 1..Len(df) : card_cells_raise(df[i])

\* Mutant of stats_asc: an independent ascending sort instead of the reversal.
stats_asc_resorted(stats, min_games) == card_stats_out(stats, min_games, FALSE)

\* my_stats_asc = list(reversed(my_stats_desc)), and the same for opp,
\* from the stats dict the descending list was built from
stats_asc(stats, min_games) == reversed(card_stats_out(stats, min_games, TRUE))

\* lines 140-153, from the stats dicts of the two _card_stats_from_rows calls
compute_card_performance_out(mine, opp, min_games) ==
    [best_cards |-> card_stats_out(mine, min_games, TRUE),
     worst_cards |-> stats_asc(mine, min_games),
     tough_opp_cards |-> card_stats_out(opp, min_games, TRUE),
     easy_opp_cards |-> stats_asc(opp, min_games)]

----------------------------------------------------------------------------
(* Deck-level stats *)

\* Mutant of deck_key: the cards in the order given, not sorted.
deck_key_unsorted(cs) == cs

\* tuple(sorted(cards)): the deck key, the names in Python's string order
deck_key(cs) ==
    LET sorted_prefix[i \in 0..Len(cs)] ==
          IF i = 0 THEN <<>>
          ELSE LET acc == sorted_prefix[i - 1]
                   k == Cardinality({j \in 1..Len(acc) : ~name_lt(cs[i], acc[j])})
               IN SubSeq(acc, 1, k) \o <<cs[i]>> \o SubSeq(acc, k + 1, Len(acc))
    IN sorted_prefix[Len(cs)]

\* lines 175-177 on one battle: b["result"] raises KeyError when the dict
\* lacks the key; b.get("my_cards", []) is [] when the key is missing and
\* None when the dict has None, and sorted(None) raises TypeError
deck_battle_raises(b) ==
    IF b.keys["result"] = "missing" THEN <<"KeyError">>
    ELSE IF b.keys["my_cards"] = "None" \/ b.keys["opp_cards"] = "None"
    THEN <<"TypeError">>
    ELSE <<>>

\* the exception of the first battle of the loop of lines 174-195 that
\* raises one, <<>> when none does
RECURSIVE deck_performance_raises(_)
deck_performance_raises(battles) ==
    IF battles = <<>> THEN <<>>
    ELSE IF deck_battle_raises(Head(battles)) # <<>>
    THEN deck_battle_raises(Head(battles))
    ELSE deck_performance_raises(Tail(battles))

\* one iteration of the loop of lines 174-195, on my_decks (lines 175-186)
my_decks_step(decks, b) ==
    LET my_key == deck_key(b.my_cards)
        d == with_key(decks, my_key)
    IN [d EXCEPT ![index_of(d, my_key)] = count_result(@, b.result)]

\* one iteration of the loop of lines 174-195, on opp_decks (lines 175-195)
opp_decks_step(decks, b) ==
    LET opp_key == deck_key(b.opp_cards)
        d == with_key(decks, opp_key)
    IN [d EXCEPT ![index_of(d, opp_key)] = count_result_opp(@, b.result)]

RECURSIVE my_decks_from(_, _)
my_decks_from(decks, battles) ==
    IF battles = <<>> THEN decks
    ELSE my_decks_from(my_decks_step(decks, Head(battles)), Tail(battles))

RECURSIVE opp_decks_from(_, _)
opp_decks_from(decks, battles) ==
    IF battles = <<>> THEN decks
    ELSE opp_decks_from(opp_decks_step(decks, Head(battles)), Tail(battles))

\* the loop of lines 174-195 on my_decks, from the empty dict
my_decks_loop(battles) == my_decks_from(<<>>, battles)

\* the loop of lines 174-195 on opp_decks, from the empty dict
opp_decks_loop(battles) == opp_decks_from(<<>>, battles)

deck_entry(s) ==
    [deck |-> s.key, games |-> s.games, wins |-> s.wins, losses |-> s.losses,
     draws |-> s.draws, win_rate |-> win_rate_of(s.wins, s.games)]

\* _deck_dicts(decks_stats), with the enclosing min_games
_deck_dicts(decks_stats, min_games) ==
    LET kept == kept_buckets(decks_stats, min_games)
    IN sort_by_rate_games([i \in 1..Len(kept) |-> deck_entry(kept[i])], TRUE)

\* "worst_decks": list(reversed(my_decks_list)), and the same for matchups
decks_reversed(decks_stats, min_games) == reversed(_deck_dicts(decks_stats, min_games))

compute_deck_performance_out(mine, opp, min_games) ==
    [best_decks |-> _deck_dicts(mine, min_games),
     worst_decks |-> decks_reversed(mine, min_games),
     tough_matchups |-> _deck_dicts(opp, min_games),
     easy_matchups |-> decks_reversed(opp, min_games)]

----------------------------------------------------------------------------
(* Deck-type stats *)

\* str.lower on the result strings of the checked battles
lower(s) == IF s = "WIN" THEN "win" ELSE s

\* _init_type_bucket(deck_type); its win_rate field is recomputed at the end
_init_type_bucket(t) == new_bucket(t)

with_type(d, t) == IF has_key(d, t) THEN d ELSE Append(d, _init_type_bucket(t))

\* one iteration of the loop of lines 225-252, on my_raw
my_raw_step(raw, b) ==
    LET my_type == classify_deck(b.my_cards)
        d == with_type(raw, my_type)
    IN [d EXCEPT ![index_of(d, my_type)] = count_result(@, lower(b.result))]

\* Mutant of opp_raw_step: the opponent bucket updated with the inverted
\* result, as the card and deck engines do.
opp_raw_step_inverted(raw, b) ==
    LET opp_type == classify_deck(b.opp_cards)
        d == with_type(raw, opp_type)
    IN [d EXCEPT ![index_of(d, opp_type)] = count_result_opp(@, lower(b.result))]

\* one iteration of the loop of lines 225-252, on opp_raw
opp_raw_step(raw, b) ==
    LET opp_type == classify_deck(b.opp_cards)
        d == with_type(raw, opp_type)
    IN [d EXCEPT ![index_of(d, opp_type)] = count_result(@, lower(b.result))]

RECURSIVE my_raw_from(_, _)
my_raw_from(raw, battles) ==
    IF battles = <<>> THEN raw
    ELSE my_raw_from(my_raw_step(raw, Head(battles)), Tail(battles))

RECURSIVE opp_raw_from(_, _)
opp_raw_from(raw, battles) ==
    IF battles = <<>> THEN raw
    ELSE opp_raw_from(opp_raw_step(raw, Head(battles)), Tail(battles))

\* Mutant of my_raw_loop: my_raw kept from the call before instead of
\* `my_raw = {}` (line 222), as a module-level dict would be.
my_raw_loop_carried(battles) == my_raw_from(my_raw, battles)

\* the loop of lines 225-252 on my_raw, from the empty dict
my_raw_loop(battles) == my_raw_from(<<>>, battles)

\* the loop of lines 225-252 on opp_raw, from the empty dict
opp_raw_loop(battles) == opp_raw_from(<<>>, battles)

type_entry(s) ==
    [type |-> s.key, games |-> s.games, wins |-> s.wins, losses |-> s.losses,
     draws |-> s.draws, win_rate |-> win_rate_of(s.wins, s.games)]

\* result.sort(key=lambda d: d["games"], reverse=True): stable
sort_by_games_desc(result) ==
    LET sorted_prefix[i \in 0..Len(result)] ==
          IF i = 0 THEN <<>>
          ELSE LET acc == sorted_prefix[i - 1]
                   k == Cardinality({j \in 1..Len(acc) :
                                        acc[j].games >= result[i].games})
               IN SubSeq(acc, 1, k) \o <<result[i]>> \o SubSeq(acc, k + 1, Len(acc))
    IN sorted_prefix[Len(result)]

\* Mutant of _finalize_stats: the list sorted as the card and deck lists
\* are, by win rate and then games, descending.
_finalize_stats_by_rate(raw) ==
    sort_by_rate_games([i \in 1..Len(raw) |-> type_entry(raw[i])], TRUE)

\* _finalize_stats(raw): win rates, then sort by games, descending
_finalize_stats(raw) ==
    sort_by_games_desc([i \in 1..Len(raw) |-> type_entry(raw[i])])

----------------------------------------------------------------------------
(* compute_user_analytics, one action per call it makes *)

\* line 257, 259: df = build_battles_dataframe(...); summary = compute_summary(df)
call_compute_summary ==
    /\ pc = "start"
    /\ summary' = <<compute_summary(build_battles_dataframe(battles_normalized))>>
    /\ pc' = "cards"
    /\ UNCHANGED <<workflow_vars, _CARD_META_BY_NAME, classifier_vars, battles_normalized,
                   raised, returned,
                   min_card_games, min_deck_games, stats_my, stats_opp,
                   card_stats, my_decks, opp_decks, deck_stats, my_raw, opp_raw,
                   my_deck_types, opp_deck_types>>

\* line 260: card_stats = compute_card_performance(df, min_games=min_card_games)
call_compute_card_performance ==
    /\ pc = "cards"
    /\ LET df == build_battles_dataframe(battles_normalized)
       IN /\ ~card_performance_raises(df)
          /\ stats_my' = card_stats_loop(rows_my_of(df))
          /\ stats_opp' = card_stats_loop(rows_opp_of(df))
          /\ card_stats' = <<compute_card_performance_out(stats_my', stats_opp',
                                                          min_card_games)>>
    /\ pc' = "decks"
    /\ UNCHANGED <<workflow_vars, _CARD_META_BY_NAME, classifier_vars, battles_normalized,
                   raised, returned,
                   min_card_games, min_deck_games, summary, my_decks, opp_decks,
                   deck_stats, my_raw, opp_raw, my_deck_types, opp_deck_types>>

\* line 260, when compute_card_performance raises: the exception leaves
\* compute_user_analytics
raise_in_compute_card_performance ==
    /\ pc = "cards"
    /\ card_performance_raises(build_battles_dataframe(battles_normalized))
    /\ raised' = <<"TypeError">>
    /\ pc' = "raised"
    /\ UNCHANGED <<workflow_vars, _CARD_META_BY_NAME, classifier_vars, battles_normalized,
                   min_card_games, min_deck_games, summary, stats_my, stats_opp,
                   card_stats, my_decks, opp_decks, deck_stats, my_raw, opp_raw,
                   my_deck_types, opp_deck_types, returned>>

\* lines 261-263: deck_stats = compute_deck_performance(battles_normalized, ...)
call_compute_deck_performance ==
    /\ pc = "decks"
    /\ deck_performance_raises(battles_normalized) = <<>>
    /\ my_decks' = my_decks_loop(battles_normalized)
    /\ opp_decks' = opp_decks_loop(battles_normalized)
    /\ deck_stats' = <<compute_deck_performance_out(my_decks', opp_decks',
                                                    min_deck_games)>>
    /\ pc' = "types"
    /\ UNCHANGED <<workflow_vars, _CARD_META_BY_NAME, classifier_vars, battles_normalized,
                   raised, returned,
                   min_card_games, min_deck_games, summary, stats_my, stats_opp,
                   card_stats, my_raw, opp_raw, my_deck_types, opp_deck_types>>

\* lines 261-263, when compute_deck_performance raises
raise_in_compute_deck_performance ==
    /\ pc = "decks"
    /\ deck_performance_raises(battles_normalized) # <<>>
    /\ raised' = deck_performance_raises(battles_normalized)
    /\ pc' = "raised"
    /\ UNCHANGED <<workflow_vars, _CARD_META_BY_NAME, classifier_vars, battles_normalized,
                   min_card_games, min_deck_games, summary, stats_my, stats_opp,
                   card_stats, my_decks, opp_decks, deck_stats, my_raw, opp_raw,
                   my_deck_types, opp_deck_types, returned>>

\* line 265: my_deck_types, opp_deck_types = summarize_deck_types(battles_normalized)
call_summarize_deck_types ==
    /\ pc = "types"
    /\ my_raw' = my_raw_loop(battles_normalized)
    /\ opp_raw' = opp_raw_loop(battles_normalized)
    /\ my_deck_types' = _finalize_stats(my_raw')
    /\ opp_deck_types' = _finalize_stats(opp_raw')
    /\ pc' = "done"
    /\ UNCHANGED <<workflow_vars, _CARD_META_BY_NAME, classifier_vars, battles_normalized,
                   raised, returned,
                   min_card_games, min_deck_games, summary, stats_my, stats_opp,
                   card_stats, my_decks, opp_decks, deck_stats>>

\* lines 267-280: the analytics dict ("plots" is always {})
analytics ==
    [summary |-> summary[1],
     best_cards |-> card_stats[1].best_cards,
     worst_cards |-> card_stats[1].worst_cards,
     tough_opp_cards |-> card_stats[1].tough_opp_cards,
     easy_opp_cards |-> card_stats[1].easy_opp_cards,
     best_decks |-> deck_stats[1].best_decks,
     worst_decks |-> deck_stats[1].worst_decks,
     tough_matchups |-> deck_stats[1].tough_matchups,
     easy_matchups |-> deck_stats[1].easy_matchups,
     my_deck_types |-> my_deck_types,
     opp_deck_types |-> opp_deck_types]

\* the arguments of the call
arguments == <<battles_normalized, min_card_games, min_deck_games>>

----------------------------------------------------------------------------
(* Idle values of the compute_user_analytics variables *)

\* min_games: int = 3, the default of both thresholds
DefaultMinGames == 3

AnalyticsIdle ==
    /\ pc = "idle"
    /\ battles_normalized = <<>>
    /\ min_card_games = DefaultMinGames
    /\ min_deck_games = DefaultMinGames
    /\ summary = <<>>
    /\ stats_my = <<>>
    /\ stats_opp = <<>>
    /\ card_stats = <<>>
    /\ my_decks = <<>>
    /\ opp_decks = <<>>
    /\ deck_stats = <<>>
    /\ my_raw = <<>>
    /\ opp_raw = <<>>
    /\ my_deck_types = <<>>
    /\ opp_deck_types = <<>>
    /\ raised = <<>>
    /\ returned = <<>>

----------------------------------------------------------------------------
(* Idle values of the workflow variables *)

CoachIdle ==
    /\ coach_node = "idle"
    /\ coach_state = <<>>
    /\ coach_ran = <<>>

FetchIdle ==
    /\ fetch_pc = "idle"
    /\ meta_state = <<>>
    /\ fetched = {}
    /\ meta_raw = <<>>
    /\ notes = <<>>
    /\ new_players = 0
    /\ new_battles = 0
    /\ p_index = 0
    /\ fetch_log = <<>>

QuestionIdle ==
    /\ question_pc = "idle"
    /\ raw_reply = <<>>
    /\ question_state = <<>>
    /\ question_raised = <<>>

WorkflowIdle == CoachIdle /\ FetchIdle /\ QuestionIdle

\* the classifier and compute_user_analytics not called
EngineIdle ==
    /\ _CARD_META_BY_NAME = MetaTable(TRUE, TRUE)
    /\ cards = <<>>
    /\ v = <<>>
    /\ deck_type = <<>>
    /\ AnalyticsIdle

----------------------------------------------------------------------------
(* Specification of the classifier: every deck of at most MaxDeckLen cards *)
(* under every metadata table, classified once.                            *)

InitClassify ==
    /\ _CARD_META_BY_NAME \in MetaTables
    /\ cards \in Decks(CardNameSet, MaxDeckLen)
    /\ v = <<>>
    /\ deck_type = <<>>
    /\ AnalyticsIdle
    /\ WorkflowIdle

NextClassify ==
    \/ classify_deck_empty
    \/ classify_deck_rules

SpecClassify == InitClassify /\ [][NextClassify]_vars

----------------------------------------------------------------------------
(* Specification of the classifier on short, full and overlong decks:      *)
(* every deck of at most MaxPrefixLen cards, as it is and filled up with   *)
(* copies of one card to MaxPrefixLen + 3, MaxLongDeckLen - 1 and          *)
(* MaxLongDeckLen cards, under the tables LongMetaTables.                  *)

MaxPrefixLen == 3
MaxLongDeckLen == 9

\* the deck followed by copies of the card up to n cards
filled(d, c, n) == d \o [i \in 1..(n - Len(d)) |-> c]

\* the cards a deck is filled with
FillerNames == {"Goblin Barrel", "Goblin Gang", "Skeletons", "Unknown Card"}

LongDecks ==
    Decks(CardNameSet, MaxPrefixLen) \cup
    {filled(d, c, n) : d \in Decks(CardNameSet, MaxPrefixLen),
                       c \in FillerNames,
                       n \in {MaxPrefixLen + 3, MaxLongDeckLen - 1, MaxLongDeckLen}}

\* a table whose big tank has an entry without elixir
MetaTableTankWithoutElixir ==
    [MetaTable(TRUE, TRUE) EXCEPT !["Golem"] = meta(<<>>, FALSE, FALSE, TRUE)]

\* a table without an entry for "Goblin Barrel"
MetaTableWithoutBarrel ==
    [c \in DOMAIN MetaTable(TRUE, TRUE) \ {"Goblin Barrel"} |->
        MetaTable(TRUE, TRUE)[c]]

LongMetaTables ==
    {MetaTable(TRUE, x) : x \in BOOLEAN}
    \cup {MetaTableTankWithoutElixir, MetaTableWithoutBarrel}

InitClassifyLong ==
    /\ _CARD_META_BY_NAME \in LongMetaTables
    /\ cards \in LongDecks
    /\ v = <<>>
    /\ deck_type = <<>>
    /\ AnalyticsIdle
    /\ WorkflowIdle

SpecClassifyLong == InitClassifyLong /\ [][NextClassify]_vars

----------------------------------------------------------------------------
(* Specification of compute_user_analytics: every battle list of at most   *)
(* MaxBattles battles over BattlePool, with every pair of thresholds of    *)
(* which one is the default.                                               *)

\* the result strings of the checked battles: the three the engine knows
\* and one it does not
Results == {"win", "loss", "draw", "WIN"}

\* the decks of the checked battles, as <<my_cards, opp_cards>>: the same
\* cards in two orders, a card twice, a card once, no card
DeckPairs ==
    {<<(<<"X-Bow", "Golem">>), (<<"Golem", "X-Bow">>)>>,
     <<(<<"Golem", "X-Bow">>), (<<"X-Bow", "Golem">>)>>,
     <<(<<"Golem", "Golem">>), (<<"Golem">>)>>,
     <<(<<"Golem">>), (<<"Golem", "Golem">>)>>,
     <<(<<>>), (<<>>)>>}

BattlePool ==
    {[result |-> r, my_cards |-> p[1], opp_cards |-> p[2], keys |-> AllSet] :
        r \in Results, p \in DeckPairs}

MinGamesRange == (0 - 1)..DefaultMinGames

Thresholds ==
    {t \in MinGamesRange \X MinGamesRange :
        t[1] = DefaultMinGames \/ t[2] = DefaultMinGames}

Init ==
    /\ _CARD_META_BY_NAME = MetaTable(TRUE, TRUE)
    /\ cards = <<>>
    /\ v = <<>>
    /\ deck_type = <<>>
    /\ pc = "start"
    /\ battles_normalized \in UNION {[1..n -> BattlePool] : n \in 0..MaxBattles}
    /\ \E t \in Thresholds : min_card_games = t[1] /\ min_deck_games = t[2]
    /\ summary = <<>>
    /\ stats_my = <<>>
    /\ stats_opp = <<>>
    /\ card_stats = <<>>
    /\ my_decks = <<>>
    /\ opp_decks = <<>>
    /\ deck_stats = <<>>
    /\ my_raw = <<>>
    /\ opp_raw = <<>>
    /\ my_deck_types = <<>>
    /\ opp_deck_types = <<>>
    /\ raised = <<>>
    /\ returned = <<>>
    /\ WorkflowIdle

Next ==
    \/ call_compute_summary
    \/ call_compute_card_performance
    \/ call_compute_deck_performance
    \/ call_summarize_deck_types

Spec == Init /\ [][Next]_vars

----------------------------------------------------------------------------
(* Specification of compute_user_analytics on battle dicts of which keys   *)
(* are missing or None: every list of at most MaxRecords dicts over        *)
(* RecordPool, with both thresholds -1, both 1 or both the default.        *)

MaxRecords == 2

\* a battle dict from the state of its three keys
record_of(k) ==
    [result |-> IF k.result = "set" THEN "win" ELSE "",
     my_cards |-> IF k.my_cards = "set" THEN <<"Golem">> ELSE <<>>,
     opp_cards |-> IF k.opp_cards = "set" THEN <<"X-Bow">> ELSE <<>>,
     keys |-> k]

RecordPool ==
    {record_of(k) : k \in [{"result", "my_cards", "opp_cards"} -> KeyStates]}

InitRecords ==
    /\ _CARD_META_BY_NAME = MetaTable(TRUE, TRUE)
    /\ cards = <<>>
    /\ v = <<>>
    /\ deck_type = <<>>
    /\ pc = "start"
    /\ battles_normalized \in UNION {[1..n -> RecordPool] : n \in 0..MaxRecords}
    /\ \E m \in {0 - 1, 1, DefaultMinGames} :
          min_card_games = m /\ min_deck_games = m
    /\ summary = <<>>
    /\ stats_my = <<>>
    /\ stats_opp = <<>>
    /\ card_stats = <<>>
    /\ my_decks = <<>>
    /\ opp_decks = <<>>
    /\ deck_stats = <<>>
    /\ my_raw = <<>>
    /\ opp_raw = <<>>
    /\ my_deck_types = <<>>
    /\ opp_deck_types = <<>>
    /\ raised = <<>>
    /\ returned = <<>>
    /\ WorkflowIdle

NextRecords ==
    \/ call_compute_summary
    \/ call_compute_card_performance
    \/ raise_in_compute_card_performance
    \/ call_compute_deck_performance
    \/ raise_in_compute_deck_performance
    \/ call_summarize_deck_types

SpecRecords == InitRecords /\ [][NextRecords]_vars

----------------------------------------------------------------------------
(* Specification of a caller that calls compute_user_analytics at most     *)
(* MaxCalls times, with every list of at most MaxCallBattles battles over  *)
(* CallPool, and keeps what each call returned.                            *)

MaxCalls == 3
MaxCallBattles == 2

CallPool ==
    {[result |-> "win", my_cards |-> <<"Golem">>, opp_cards |-> <<"X-Bow">>,
      keys |-> AllSet],
     [result |-> "loss", my_cards |-> <<"X-Bow">>, opp_cards |-> <<"Golem">>,
      keys |-> AllSet]}

CallLists == UNION {[1..n -> CallPool] : n \in 0..MaxCallBattles}

\* line 282: return analytics. The locals of the call that has returned
\* are gone; their variables keep their last values until the next call
\* assigns them.
return_analytics ==
    /\ pc = "done"
    /\ Len(returned) < MaxCalls
    /\ returned' = Append(returned, <<arguments, analytics>>)
    /\ pc' = "returned"
    /\ UNCHANGED <<workflow_vars, _CARD_META_BY_NAME, classifier_vars, battles_normalized,
                   min_card_games, min_deck_games, summary, stats_my, stats_opp,
                   card_stats, my_decks, opp_decks, deck_stats, my_raw, opp_raw,
                   my_deck_types, opp_deck_types, raised>>

\* lines 232-236: the next call, with arguments of the caller's choice
call_compute_user_analytics ==
    /\ pc = "returned"
    /\ battles_normalized' \in CallLists
    /\ min_card_games' = 1
    /\ min_deck_games' = 1
    /\ pc' = "start"
    /\ UNCHANGED <<workflow_vars, _CARD_META_BY_NAME, classifier_vars, summary, stats_my,
                   stats_opp, card_stats, my_decks, opp_decks, deck_stats,
                   my_raw, opp_raw, my_deck_types, opp_deck_types, raised,
                   returned>>

InitCalls ==
    /\ _CARD_META_BY_NAME = MetaTable(TRUE, TRUE)
    /\ cards = <<>>
    /\ v = <<>>
    /\ deck_type = <<>>
    /\ pc = "start"
    /\ battles_normalized \in CallLists
    /\ min_card_games = 1
    /\ min_deck_games = 1
    /\ summary = <<>>
    /\ stats_my = <<>>
    /\ stats_opp = <<>>
    /\ card_stats = <<>>
    /\ my_decks = <<>>
    /\ opp_decks = <<>>
    /\ deck_stats = <<>>
    /\ my_raw = <<>>
    /\ opp_raw = <<>>
    /\ my_deck_types = <<>>
    /\ opp_deck_types = <<>>
    /\ raised = <<>>
    /\ returned = <<>>
    /\ WorkflowIdle

NextCalls ==
    \/ call_compute_summary
    \/ call_compute_card_performance
    \/ call_compute_deck_performance
    \/ call_summarize_deck_types
    \/ return_analytics
    \/ call_compute_user_analytics

SpecCalls == InitCalls /\ [][NextCalls]_vars

----------------------------------------------------------------------------
(* phase2_qna_workflow.py: the coach graph                                 *)
(* A question is a sequence of one-character strings, so that strip() and  *)
(* lower() are computed character by character.                            *)

\* most questions asked in one run of the coach graph
MaxQuestions == 3

\* the characters str.strip() removes, among those of the question pool
Whitespace == {" ", "\t"}

\* str.lower() on one character
lower_char(c) ==
    CASE c = "S" -> "s" [] c = "T" -> "t" [] c = "O" -> "o" [] c = "P" -> "p"
      [] c = "E" -> "e" [] c = "X" -> "x" [] c = "I" -> "i" [] c = "Q" -> "q"
      [] c = "U" -> "u" [] c = "W" -> "w" [] c = "H" -> "h" [] c = "Y" -> "y"
      [] OTHER -> c

\* str.lower()
str_lower(q) == [i \in 1..Len(q) |-> lower_char(q[i])]

RECURSIVE str_lstrip(_)
str_lstrip(q) ==
    IF q # <<>> /\ Head(q) \in Whitespace THEN str_lstrip(Tail(q)) ELSE q

RECURSIVE str_rstrip(_)
str_rstrip(q) ==
    IF q # <<>> /\ q[Len(q)] \in Whitespace
    THEN str_rstrip(SubSeq(q, 1, Len(q) - 1))
    ELSE q

\* str.strip()
str_strip(q) == str_rstrip(str_lstrip(q))

\* {"stop", "exit", "quit"}, line 650
StopWords ==
    {<<"s", "t", "o", "p">>, <<"e", "x", "i", "t">>, <<"q", "u", "i", "t">>}

\* state.get("question") or "": the key missing, None and "" all give ""
question_or_empty(state) ==
    IF state.question = <<>> THEN <<>> ELSE state.question[1]

\* Mutant of route_after_question: the question is lower-cased and not
\* stripped.
route_after_question_unstripped(state) ==
    LET q == str_lower(question_or_empty(state))
    IN IF q \in StopWords THEN "end" ELSE "qa_answer"

\* route_after_question, lines 643-653
route_after_question(state) ==
    LET q == str_lower(str_strip(question_or_empty(state)))
    IN IF q \in StopWords THEN "end" ELSE "qa_answer"

\* build_coach_graph, lines 666-669 and 681: the plain edges; START leads
\* to ensure_meta
coach_edges ==
    [ensure_meta |-> "ask_for_tag",
     ask_for_tag |-> "ensure_user",
     ensure_user |-> "ask_for_question",
     qa_answer |-> "ask_for_question"]

\* build_coach_graph, lines 672-678: the labels of the conditional edge
coach_conditional_edges == [qa_answer |-> "qa_answer", end |-> "END"]

\* the record of a node that has run: its name, the question in the state
\* it left, and whether it returned (or raised)
ran(node, state, ok) ==
    [node |-> node, question |-> state.question, returned |-> ok]

\* ensure_meta, lines 555-568, returning (with the meta tables already in
\* the state, or after _meta_graph.invoke returned)
ensure_meta ==
    /\ coach_node = "ensure_meta"
    /\ coach_state' = [coach_state EXCEPT !.meta = TRUE]
    /\ coach_ran' = Append(coach_ran, ran("ensure_meta", coach_state', TRUE))
    /\ coach_node' = coach_edges.ensure_meta
    /\ UNCHANGED <<_CARD_META_BY_NAME, classifier_vars, analytics_vars,
                   fetch_vars, question_vars>>

\* ask_for_tag, lines 570-576: asks only when player_tag is not in the state
ask_for_tag ==
    /\ coach_node = "ask_for_tag"
    /\ coach_state' = [coach_state EXCEPT !.player_tag = TRUE]
    /\ coach_ran' = Append(coach_ran, ran("ask_for_tag", coach_state', TRUE))
    /\ coach_node' = coach_edges.ask_for_tag
    /\ UNCHANGED <<_CARD_META_BY_NAME, classifier_vars, analytics_vars,
                   fetch_vars, question_vars>>

\* ensure_user, lines 599-613 (the later of the two definitions of that
\* name), returning
ensure_user ==
    /\ coach_node = "ensure_user"
    /\ coach_state.player_tag
    /\ coach_state' = [coach_state EXCEPT !.user = TRUE]
    /\ coach_ran' = Append(coach_ran, ran("ensure_user", coach_state', TRUE))
    /\ coach_node' = coach_edges.ensure_user
    /\ UNCHANGED <<_CARD_META_BY_NAME, classifier_vars, analytics_vars,
                   fetch_vars, question_vars>>

\* the questions a user may type, and None
QuestionPool ==
    {<<>>,
     <<<<"s", "t", "o", "p">>>>,
     <<<<" ", "S", "t", "o", "p", "\t">>>>,
     <<<<"E", "X", "I", "T">>>>,
     <<<<"q", "u", "i", "t", " ">>>>,
     <<<<"s", "t", " ", "o", "p">>>>,
     <<<<"s", "t", "o", "p", "s">>>>,
     <<<<"w", "h", "y">>>>,
     <<<<>>>>}

\* how many times ask_for_question has run
questions_asked ==
    Cardinality({i \in 1..Len(coach_ran) : coach_ran[i].node = "ask_for_question"})

\* ask_for_question, lines 615-617 (the later definition), followed by the
\* conditional edge of lines 672-678
ask_for_question ==
    /\ coach_node = "ask_for_question"
    /\ questions_asked < MaxQuestions
    /\ \E question \in QuestionPool :
          coach_state' = [coach_state EXCEPT !.question = question]
    /\ coach_ran' = Append(coach_ran, ran("ask_for_question", coach_state', TRUE))
    /\ coach_node' = coach_conditional_edges[route_after_question(coach_state')]
    /\ UNCHANGED <<_CARD_META_BY_NAME, classifier_vars, analytics_vars,
                   fetch_vars, question_vars>>

\* qa_answer, lines 619-640, returning
qa_answer ==
    /\ coach_node = "qa_answer"
    /\ coach_state' = [coach_state EXCEPT !.answer = TRUE]
    /\ coach_ran' = Append(coach_ran, ran("qa_answer", coach_state', TRUE))
    /\ coach_node' = coach_edges.qa_answer
    /\ UNCHANGED <<_CARD_META_BY_NAME, classifier_vars, analytics_vars,
                   fetch_vars, question_vars>>

\* lines 561, 605, 631: the invoke of a sub-graph raises (nothing in the
\* three nodes catches it) and the run of the coach graph is over
coach_node_raises ==
    /\ \/ coach_node = "ensure_meta" /\ ~coach_state.meta
       \/ coach_node = "ensure_user" /\ ~coach_state.user
       \/ coach_node = "qa_answer"
    /\ coach_ran' = Append(coach_ran, ran(coach_node, coach_state, FALSE))
    /\ coach_node' = "raised"
    /\ UNCHANGED coach_state
    /\ UNCHANGED <<_CARD_META_BY_NAME, classifier_vars, analytics_vars,
                   fetch_vars, question_vars>>

\* the state the graph is invoked with: any of the keys may be there
InitCoach ==
    /\ EngineIdle
    /\ FetchIdle
    /\ QuestionIdle
    /\ coach_node = "ensure_meta"
    /\ coach_state \in [meta : BOOLEAN, player_tag : BOOLEAN, user : BOOLEAN,
                         question : {<<>>}, answer : {FALSE}]
    /\ coach_ran = <<>>

NextCoach ==
    \/ ensure_meta
    \/ ask_for_tag
    \/ ensure_user
    \/ ask_for_question
    \/ qa_answer
    \/ coach_node_raises

SpecCoach == InitCoach /\ [][NextCoach]_vars

----------------------------------------------------------------------------
(* meta_workflow.py: fetch_meta_battles_node, one action per pass of its   *)
(* loop. A player is its "tag" value: <<>> for a missing key or None,      *)
(* <<"">> for the empty string, <<tag>> otherwise. A note is a record in   *)
(* place of the formatted string.                                          *)

\* most players in selected_players
MaxPlayers == 3
\* longest list filter_and_normalize_ranked_1v1 returns
MaxLogLen == 11
\* normalized[:10], line 123
MaxBattlesPerPlayer == 10

Tags == {"#A", "#B"}
PlayerPool == {<<>>, <<"">>} \cup {<<t>> : t \in Tags}
LogLengths == {0, 1, MaxBattlesPerPlayer, MaxLogLen}

\* a battle of the meta_raw_battles the node is called with
EarlierBattle == [battle |-> 0, _meta_source_tag |-> "#old"]
EarlierNote == [kind |-> "earlier", tag |-> "", new_battles |-> 0,
                new_players |-> 0, total_meta_battles |-> 0]

\* lines 101-107: the copies of the state and the two counters
fetch_meta_battles_node_enter ==
    /\ fetch_pc = "start"
    /\ fetched' = meta_state.fetched_player_tags
    /\ meta_raw' = meta_state.meta_raw_battles
    /\ notes' = meta_state.notes
    /\ new_players' = 0
    /\ new_battles' = 0
    /\ p_index' = 0
    /\ fetch_pc' = "loop"
    /\ UNCHANGED <<meta_state, fetch_log>>
    /\ UNCHANGED <<_CARD_META_BY_NAME, classifier_vars, analytics_vars,
                   coach_vars, question_vars>>

\* selected = state["selected_players"], line 101
selected == meta_state.selected_players
\* p.get("tag"), line 110
tag_of(p) == p

\* line 111: not tag or tag in fetched
skips(tag) ==
    IF tag = <<>> \/ tag = <<"">> THEN TRUE ELSE tag[1] \in fetched

\* lines 109-112: the pass of a player that is skipped
fetch_skip ==
    /\ fetch_pc = "loop"
    /\ p_index < Len(selected)
    /\ skips(tag_of(selected[p_index + 1]))
    /\ p_index' = p_index + 1
    /\ UNCHANGED <<fetch_pc, meta_state, fetched, meta_raw, notes, new_players,
                   new_battles, fetch_log>>
    /\ UNCHANGED <<_CARD_META_BY_NAME, classifier_vars, analytics_vars,
                   coach_vars, question_vars>>

\* lines 114-120: get_player_battlelog raises; the note, and on to the next
\* player
fetch_raises ==
    /\ fetch_pc = "loop"
    /\ p_index < Len(selected)
    /\ ~skips(tag_of(selected[p_index + 1]))
    /\ LET tag == tag_of(selected[p_index + 1])[1]
       IN /\ notes' = Append(notes, [kind |-> "error", tag |-> tag,
                                     new_battles |-> 0, new_players |-> 0,
                                     total_meta_battles |-> 0])
          /\ fetch_log' = Append(fetch_log,
                                 [tag |-> tag, ok |-> FALSE, at |-> p_index + 1])
    /\ new_players' = new_players + 1
    /\ p_index' = p_index + 1
    /\ UNCHANGED <<fetch_pc, meta_state, fetched, meta_raw, new_battles>>
    /\ UNCHANGED <<_CARD_META_BY_NAME, classifier_vars, analytics_vars,
                   coach_vars, question_vars>>

\* what filter_and_normalize_ranked_1v1 returns: n battles
normalized_log(n) == [k \in 1..n |-> [battle |-> k]]

\* Mutant of battles_of: the whole normalized list, not its first 10.
battles_of_unsliced(normalized, tag) ==
    [k \in 1..Len(normalized) |->
        [battle |-> normalized[k].battle, _meta_source_tag |-> tag]]

\* lines 123-127: battles = normalized[:10], each annotated with the tag
battles_of(normalized, tag) ==
    LET battles == take(normalized, MaxBattlesPerPlayer)
    IN [k \in 1..Len(battles) |->
          [battle |-> battles[k].battle, _meta_source_tag |-> tag]]

\* lines 114-131: get_player_battlelog returns and the log is normalized
fetch_ok ==
    /\ fetch_pc = "loop"
    /\ p_index < Len(selected)
    /\ ~skips(tag_of(selected[p_index + 1]))
    /\ \E n \in LogLengths :
          LET tag == tag_of(selected[p_index + 1])[1]
              battles == battles_of(normalized_log(n), tag)
          IN /\ meta_raw' = meta_raw \o battles
             /\ new_battles' = new_battles + Len(battles)
             /\ fetched' = fetched \cup {tag}
             /\ fetch_log' = Append(fetch_log,
                                    [tag |-> tag, ok |-> TRUE, at |-> p_index + 1])
    /\ new_players' = new_players + 1
    /\ p_index' = p_index + 1
    /\ UNCHANGED <<fetch_pc, meta_state, notes>>
    /\ UNCHANGED <<_CARD_META_BY_NAME, classifier_vars, analytics_vars,
                   coach_vars, question_vars>>

\* line 122: filter_and_normalize_ranked_1v1 raises, outside the try, and
\* the node raises with it
raise_in_filter_and_normalize ==
    /\ fetch_pc = "loop"
    /\ p_index < Len(selected)
    /\ ~skips(tag_of(selected[p_index + 1]))
    /\ fetch_log' = Append(fetch_log,
                           [tag |-> tag_of(selected[p_index + 1])[1],
                            ok |-> TRUE, at |-> p_index + 1])
    /\ new_players' = new_players + 1
    /\ fetch_pc' = "raised"
    /\ UNCHANGED <<meta_state, fetched, meta_raw, notes, new_battles, p_index>>
    /\ UNCHANGED <<_CARD_META_BY_NAME, classifier_vars, analytics_vars,
                   coach_vars, question_vars>>

\* lines 133-142: the closing note and the returned update, which is the
\* three locals
fetch_return ==
    /\ fetch_pc = "loop"
    /\ p_index = Len(selected)
    /\ notes' = Append(notes, [kind |-> "summary", tag |-> "",
                               new_battles |-> new_battles,
                               new_players |-> new_players,
                               total_meta_battles |-> Len(meta_raw)])
    /\ fetch_pc' = "returned"
    /\ UNCHANGED <<meta_state, fetched, meta_raw, new_players, new_battles,
                   p_index, fetch_log>>
    /\ UNCHANGED <<_CARD_META_BY_NAME, classifier_vars, analytics_vars,
                   coach_vars, question_vars>>

\* the state the node is called with
InitFetch ==
    /\ EngineIdle
    /\ CoachIdle
    /\ QuestionIdle
    /\ fetch_pc = "start"
    /\ meta_state \in
          [selected_players : UNION {[1..n -> PlayerPool] : n \in 0..MaxPlayers},
           fetched_player_tags : SUBSET Tags,
           meta_raw_battles : {<<>>, <<EarlierBattle>>},
           notes : {<<EarlierNote>>}]
    /\ fetched = {}
    /\ meta_raw = <<>>
    /\ notes = <<>>
    /\ new_players = 0
    /\ new_battles = 0
    /\ p_index = 0
    /\ fetch_log = <<>>

NextFetch ==
    \/ fetch_meta_battles_node_enter
    \/ fetch_skip
    \/ fetch_raises
    \/ fetch_ok
    \/ raise_in_filter_and_normalize
    \/ fetch_return

SpecFetch == InitFetch /\ [][NextFetch]_vars

----------------------------------------------------------------------------
(* phase2_qna_workflow.py: classify_question_node                          *)
(* A JSON value is a record [type, ...]; what a for loop over it yields is *)
(* its items (the elements of an array, the characters of a string, the    *)
(* keys of an object). A note is its kind, in place of the formatted       *)
(* string.                                                                 *)

\* phase2_constants.py is not among the sources. The names are those the
\* callers of the node compare with (lines 299, 443-466); DEFAULT_NEEDS has
\* a list for every category and for "other", and "SEND_ALL" is a data
\* need, the reading under which lines 254-262 raise least.
CATEGORIES == {"user", "matchup", "meta", "card"}
DATANEEDS ==
    {"USER_SUMMARY", "USER_DECK_SUMMARY", "USER_CARD_SUMMARY",
     "OPPONENT_CARD_SUMMARY", "USER_MATCHUP_SUMMARY", "META_DECK_SUMMARY",
     "META_DECK_MATCHUPS", "SEND_ALL"}
json_list(items) == [type |-> "list", items |-> items]
DEFAULT_NEEDS ==
    [c \in CATEGORIES \cup {"other"} |->
        IF c = "meta" THEN json_list(<<"META_DECK_SUMMARY">>)
        ELSE IF c = "other" THEN json_list(<<"SEND_ALL">>)
        ELSE json_list(<<"USER_SUMMARY">>)]

\* the values "data_needs" may hold in the classifier's reply
DataNeedsPool ==
    {[type |-> "missing", items |-> <<>>],
     [type |-> "null", items |-> <<>>],
     [type |-> "number", items |-> <<>>],
     [type |-> "string", items |-> <<"S", "E", "N", "D">>],
     [type |-> "object", items |-> <<"USER_SUMMARY">>],
     json_list(<<>>),
     json_list(<<"USER_CARD_SUMMARY">>),
     json_list(<<"EVERYTHING">>),
     json_list(<<"EVERYTHING", "META_DECK_MATCHUPS", "USER_SUMMARY">>)}

\* the values "category" may hold: <<>> for a missing key or null
CategoryPool == {<<>>, <<"meta">>, <<"card">>, <<"other">>, <<"weather">>}

\* what chat_completion may return: text that is not JSON, JSON that is
\* not an object, or an object
ReplyPool ==
    {[kind |-> "not_json", category |-> <<>>, data_needs |-> json_list(<<>>)]}
    \cup {[kind |-> k, category |-> <<>>, data_needs |-> json_list(<<>>)] :
            k \in {"json_list", "json_string", "json_number", "json_null"}}
    \cup {[kind |-> "json_object", category |-> c, data_needs |-> d] :
            c \in CategoryPool, d \in DataNeedsPool}

\* chat_completion raised
Raised == [kind |-> "raised", category |-> <<>>, data_needs |-> json_list(<<>>)]

fallback(note) ==
    [category |-> "other", needs |-> json_list(<<"SEND_ALL">>), notes |-> <<note>>]

\* lines 245-252: json.loads, parsed.get("category"),
\* parsed.get("data_needs", []); every exception gives the fallback
parsed_of(reply) ==
    IF reply.kind # "json_object"
    THEN fallback("JSON parse error")
    ELSE [category |-> IF reply.category = <<>> THEN "None" ELSE reply.category[1],
          needs |-> IF reply.data_needs.type = "missing" THEN json_list(<<>>)
                    ELSE reply.data_needs,
          notes |-> <<>>]

\* lines 254-257: a category not in CATEGORIES gives the fallback
validated(parsed) ==
    IF parsed.category \notin CATEGORIES
    THEN [fallback("invalid category") EXCEPT !.notes = parsed.notes \o @]
    ELSE parsed

\* line 260: for n in needs raises TypeError for None and for a number
iterable(needs) == needs.type \in {"list", "string", "object"}

\* lines 260-262: the needs that are data needs, or the category's default
cleaned_of(category, needs) ==
    LET cleaned == SelectSeq(needs.items, LAMBDA n : n \in DATANEEDS)
    IN IF cleaned = <<>> THEN DEFAULT_NEEDS[category] ELSE json_list(cleaned)

\* lines 231-242: chat_completion raises; the node returns the fallback
chat_completion_raises ==
    /\ question_pc = "start"
    /\ raw_reply' = <<Raised>>
    /\ question_state' =
          [question_state EXCEPT
              !.question_category = <<"other">>,
              !.question_data_needs = <<json_list(<<"SEND_ALL">>)>>,
              !.notes = Append(@, "LLM error")]
    /\ question_pc' = "returned"
    /\ UNCHANGED question_raised
    /\ UNCHANGED <<_CARD_META_BY_NAME, classifier_vars, analytics_vars,
                   coach_vars, fetch_vars>>

\* lines 231-237: chat_completion returns
chat_completion_returns ==
    /\ question_pc = "start"
    /\ \E reply \in ReplyPool : raw_reply' = <<reply>>
    /\ question_pc' = "parse"
    /\ UNCHANGED <<question_state, question_raised>>
    /\ UNCHANGED <<_CARD_META_BY_NAME, classifier_vars, analytics_vars,
                   coach_vars, fetch_vars>>

\* lines 244-267: the reply is parsed, validated and stored
classify_question_returns ==
    /\ question_pc = "parse"
    /\ LET w == validated(parsed_of(raw_reply[1]))
       IN /\ iterable(w.needs)
          /\ question_state' =
                [question_state EXCEPT
                    !.question_category = <<w.category>>,
                    !.question_data_needs = <<cleaned_of(w.category, w.needs)>>,
                    !.notes = (@ \o w.notes) \o <<"classified">>]
    /\ question_pc' = "returned"
    /\ UNCHANGED <<raw_reply, question_raised>>
    /\ UNCHANGED <<_CARD_META_BY_NAME, classifier_vars, analytics_vars,
                   coach_vars, fetch_vars>>

\* line 260: the comprehension over needs raises TypeError; the notes
\* appended so far are in the state, nothing else is
raise_in_classify_question ==
    /\ question_pc = "parse"
    /\ LET w == validated(parsed_of(raw_reply[1]))
       IN /\ ~iterable(w.needs)
          /\ question_state' = [question_state EXCEPT !.notes = @ \o w.notes]
    /\ question_raised' = <<"TypeError">>
    /\ question_pc' = "raised"
    /\ UNCHANGED raw_reply
    /\ UNCHANGED <<_CARD_META_BY_NAME, classifier_vars, analytics_vars,
                   coach_vars, fetch_vars>>

\* the state the node is called with: with or without earlier notes
InitQuestion ==
    /\ EngineIdle
    /\ CoachIdle
    /\ FetchIdle
    /\ question_pc = "start"
    /\ raw_reply = <<>>
    /\ question_state \in
          [question_category : {<<>>}, question_data_needs : {<<>>},
           notes : {<<>>, <<"start_question">>}]
    /\ question_raised = <<>>

NextQuestion ==
    \/ chat_completion_raises
    \/ chat_completion_returns
    \/ classify_question_returns
    \/ raise_in_classify_question

SpecQuestion == InitQuestion /\ [][NextQuestion]_vars

----------------------------------------------------------------------------
(* Claims about classify_deck, checked under SpecClassify *)

classified == deck_type # <<>>

\* the deck holds the card name
in_deck(name) == \E i \in 1..Len(cards) : cards[i] = name

\* The conditions of the seven rules on the computed values, in the order of
\* the claim, and the label of each.
RuleConditions(w) ==
    <<w.has_xbow,
      w.has_mortar,
      w.has_bait_core,
      w.four_card_cycle_cost <= 9,
      w.bridge_spam_count >= 2,
      w.big_tank_count >= 1 /\ 2 * w.avg_elixir_x8 >= 7 * 8,
      TRUE>>

RuleLabels ==
    <<"Siege", "Siege", "Bait", "Cycle", "Bridge Spam", "Beatdown", "Hybrid">>

\* C1: for every non-empty deck classify_deck returns the label of the
\* first rule, in the order X-Bow, Mortar, bait core, cycle cost <= 9,
\* bridge spam count >= 2, big tank with avg_elixir >= 3.5, otherwise
\* Hybrid, whose condition holds: no rule's label is returned while an
\* earlier rule's condition holds.
C1_FirstMatchingRuleWins ==
    (classified /\ cards # <<>>) =>
        /\ v # <<>>
        /\ \A i \in 1..Len(RuleLabels) :
              (/\ RuleConditions(v[1])[i]
               /\ \A j \in 1..(i - 1) : ~RuleConditions(v[1])[j])
              => deck_type = <<RuleLabels[i]>>

\* C1 witness: a deck that meets the Siege and the Beatdown condition at
\* once has been classified, as Siege.
C1_Witness_SiegeAndBeatdown ==
    /\ classified
    /\ v # <<>>
    /\ RuleConditions(v[1])[1]
    /\ RuleConditions(v[1])[6]
    /\ deck_type = <<"Siege">>

\* C2: every deck that contains "X-Bow" or "Mortar" is classified Siege,
\* whatever its other cards, their metadata and its length.
C2_SiegeCardMeansSiege ==
    (classified /\ (in_deck("X-Bow") \/ in_deck("Mortar")))
        => deck_type = <<"Siege">>

\* C2 witness: a deck with Mortar, a bait core (Goblin Barrel and Goblin
\* Gang) and a big tank has been classified.
C2_Witness_MortarWithBaitCore ==
    /\ classified
    /\ in_deck("Mortar")
    /\ ~in_deck("X-Bow")
    /\ in_deck("Goblin Barrel")
    /\ in_deck("Goblin Gang")
    /\ in_deck("Golem")

\* C3: classify_deck of the empty deck returns Hybrid, and no deck value has
\* been computed when it returns (the metadata is looked up only inside
\* _precompute_deck_values, so none has been looked up either).
C3_EmptyDeckIsHybridBeforeValues ==
    (classified /\ cards = <<>>) => (deck_type = <<"Hybrid">> /\ v = <<>>)

\* C3 witness: the empty deck has been classified.
C3_Witness_EmptyDeckClassified ==
    /\ cards = <<>>
    /\ deck_type = <<"Hybrid">>

\* the six labels
ArchetypeLabels ==
    {ARCHETYPE_SIEGE, ARCHETYPE_BAIT, ARCHETYPE_CYCLE, ARCHETYPE_BRIDGE_SPAM,
     ARCHETYPE_BEATDOWN, ARCHETYPE_HYBRID}

\* the places of the deck whose card has an entry with an elixir value
KnownElixirAt(cs) ==
    {i \in 1..Len(cs) :
        /\ cs[i] \in DOMAIN _CARD_META_BY_NAME
        /\ _CARD_META_BY_NAME[cs[i]].elixir # <<>>}

\* the elixir of the card at a place with a known value
elixir_at(cs, i) == _CARD_META_BY_NAME[cs[i]].elixir[1]

\* the sum of the known elixir values of the deck, and the cards whose
\* entry has the flag
EntryElixirSum(cs) ==
    sum([i \in 1..Len(cs) |-> IF i \in KnownElixirAt(cs) THEN elixir_at(cs, i) ELSE 0])
EntryFlagCount(cs, flag) ==
    Cardinality({i \in 1..Len(cs) :
                    /\ cs[i] \in DOMAIN _CARD_META_BY_NAME
                    /\ _CARD_META_BY_NAME[cs[i]][flag]})

\* C19: classify_deck is total: for every sequence of card names (shorter
\* or longer than 8, with duplicates, with names without a metadata entry)
\* classify_deck has a value, one of the six labels, and it is the value a
\* call returns; a card without an entry gives no elixir and no flag: the
\* elixir sum and the flag counts are those of the cards with an entry.
C19_ClassifyTotalSixLabels ==
    /\ classify_deck(cards) \in ArchetypeLabels
    /\ classified =>
          /\ Len(deck_type) = 1
          /\ deck_type[1] \in ArchetypeLabels
          /\ deck_type[1] = classify_deck(cards)
    /\ v # <<>> =>
          /\ KnownElixirAt(cards) # {} =>
                v[1].avg_elixir_x8 = EntryElixirSum(cards)
          /\ KnownElixirAt(cards) = {} =>
                v[1].avg_elixir_x8 = 3 * 8 /\ v[1].four_card_cycle_cost = 12
          /\ v[1].bait_pieces = EntryFlagCount(cards, "is_bait_piece")
          /\ v[1].bridge_spam_count = EntryFlagCount(cards, "is_bridge_spam_piece")
          /\ v[1].big_tank_count = EntryFlagCount(cards, "is_big_tank")

\* C19 witness: a deck of more than 8 cards, with a card without an entry
\* and a card held more than once, has been classified.
C19_Witness_OverlongWithUnknown ==
    /\ classified
    /\ Len(cards) > 8
    /\ in_deck("Unknown Card")
    /\ \E i, j \in 1..Len(cards) : i # j /\ cards[i] = cards[j]
    /\ deck_type = <<ARCHETYPE_BEATDOWN>>

\* none of the rules before the one at place k has its condition met
NoRuleBefore(k) == \A j \in 1..(k - 1) : ~RuleConditions(v[1])[j]

\* C21: for a deck with at least one known elixir value avg_elixir is the
\* sum of the known values divided by 8, whatever the deck length and the
\* number of known values; the Beatdown rule fires exactly when no earlier
\* rule matched, big_tank_count >= 1 and the sum of the known values is
\* >= 28; for a deck with no known value avg_elixir is 3.0 and the Beatdown
\* rule does not fire.
C21_AvgElixirIsSumOverEight ==
    v # <<>> =>
        /\ KnownElixirAt(cards) # {} =>
              v[1].avg_elixir_x8 = EntryElixirSum(cards)
        /\ KnownElixirAt(cards) = {} =>
              /\ v[1].avg_elixir_x8 = 3 * 8
              /\ deck_type # <<ARCHETYPE_BEATDOWN>>
        /\ deck_type = <<ARCHETYPE_BEATDOWN>> <=>
              /\ NoRuleBefore(6)
              /\ EntryFlagCount(cards, "is_big_tank") >= 1
              /\ KnownElixirAt(cards) # {}
              /\ EntryElixirSum(cards) >= 28

\* C21 witness: a deck of 6 cards whose known elixir values sum to exactly
\* 28 has been classified Beatdown.
C21_Witness_SumExactly28 ==
    /\ classified
    /\ Len(cards) = 6
    /\ EntryElixirSum(cards) = 28
    /\ deck_type = <<ARCHETYPE_BEATDOWN>>

\* C21 second case, reached too: a deck with a big tank and no known elixir
\* value is not Beatdown.
TankWithoutKnownElixirReached ==
    /\ classified
    /\ v # <<>>
    /\ KnownElixirAt(cards) = {}
    /\ v[1].big_tank_count >= 1

\* the sum of the known elixir values at the places in S
ElixirSumAt(cs, S) ==
    sum([i \in 1..Len(cs) |-> IF i \in S THEN elixir_at(cs, i) ELSE 0])

\* the places of the (up to) four smallest known elixir values: a set of
\* min(4, number of known values) places none of which holds a larger value
\* than a place left out
FourSmallestAt(cs) ==
    LET K == KnownElixirAt(cs)
        n == IF Cardinality(K) < 4 THEN Cardinality(K) ELSE 4
    IN CHOOSE S \in SUBSET K :
           /\ Cardinality(S) = n
           /\ \A i \in S : \A j \in K \ S : elixir_at(cs, i) <= elixir_at(cs, j)

in_names(cs, name) == \E i \in 1..Len(cs) : cs[i] = name

\* no Siege card and no bait core, read off the deck and the table
NoSiegeNoBaitCore(cs) ==
    /\ ~in_names(cs, "X-Bow")
    /\ ~in_names(cs, "Mortar")
    /\ ~(in_names(cs, "Goblin Barrel") /\ EntryFlagCount(cs, "is_bait_piece") >= 1)

\* C22: four_card_cycle_cost is the sum of the four smallest known elixir
\* values (with multiplicity), the sum of all of them when there are one to
\* three, and 12 when there are none; a deck with no Siege card and no bait
\* core is Cycle exactly when that cost is <= 9.
C22_FourCardCycleCost ==
    v # <<>> =>
        LET K == KnownElixirAt(cards)
            cost == IF K = {} THEN 12
                    ELSE ElixirSumAt(cards, FourSmallestAt(cards))
        IN /\ v[1].four_card_cycle_cost = cost
           /\ Cardinality(K) \in 1..3 => cost = EntryElixirSum(cards)
           /\ NoSiegeNoBaitCore(cards) =>
                 (deck_type = <<ARCHETYPE_CYCLE>> <=> cost <= 9)

\* C22 witness: a deck of at least 6 cards with two known elixir values
\* summing to exactly 9, the rest unknown, has been classified Cycle.
C22_Witness_FewKnownManyUnknown ==
    /\ classified
    /\ Len(cards) >= 6
    /\ Cardinality(KnownElixirAt(cards)) = 2
    /\ EntryElixirSum(cards) = 9
    /\ deck_type = <<ARCHETYPE_CYCLE>>

\* C22 second case, reached too: more than four known values, the four
\* smallest of which are not the first four.
FourSmallestNotFirstReached ==
    /\ classified
    /\ v # <<>>
    /\ Cardinality(KnownElixirAt(cards)) > 4
    /\ FourSmallestAt(cards) # 1..4
    /\ v[1].four_card_cycle_cost < ElixirSumAt(cards, 1..4)

\* the places of the deck whose card is flagged is_bait_piece in the table
BaitFlaggedAt(cs) ==
    {i \in 1..Len(cs) : /\ cs[i] \in DOMAIN _CARD_META_BY_NAME
                         /\ _CARD_META_BY_NAME[cs[i]].is_bait_piece}

\* C23: classify_deck returns Bait only for a deck with Goblin Barrel and a
\* bait-flagged card other than Goblin Barrel; a deck whose only
\* bait-flagged card is Goblin Barrel itself is not Bait. Checked under
\* SpecClassify, it is violated: bait_pieces counts the barrel's own flag,
\* so the deck of Goblin Barrel alone is Bait when the table flags it.
C23_Original_BaitNeedsOtherBaitPiece ==
    (classified /\ deck_type = <<ARCHETYPE_BAIT>>) =>
        /\ in_names(cards, "Goblin Barrel")
        /\ \E i \in BaitFlaggedAt(cards) : cards[i] # "Goblin Barrel"

\* what the code does instead: Bait exactly for a deck without X-Bow and
\* Mortar that holds Goblin Barrel and at least one bait-flagged card, the
\* barrel itself included; the other card is there whenever the barrel's
\* own metadata is not flagged
BaitExactlyBarrelAndFlaggedCard ==
    classified =>
        /\ deck_type = <<ARCHETYPE_BAIT>> <=>
              /\ ~in_names(cards, "X-Bow")
              /\ ~in_names(cards, "Mortar")
              /\ in_names(cards, "Goblin Barrel")
              /\ BaitFlaggedAt(cards) # {}
        /\ (/\ deck_type = <<ARCHETYPE_BAIT>>
            /\ ~_get_card_meta("Goblin Barrel").is_bait_piece) =>
              \E i \in BaitFlaggedAt(cards) : cards[i] # "Goblin Barrel"

\* no card of the deck has an entry in the metadata table
NoCardHasMetadata(cs) == \A i \in 1..Len(cs) : cs[i] \notin DOMAIN _CARD_META_BY_NAME

\* C24: a non-empty deck in which no card has a metadata entry and which
\* holds neither X-Bow nor Mortar is classified Hybrid, on the defaults
\* four_card_cycle_cost = 12 and avg_elixir = 3.0 and with all flag counts
\* 0, also when it holds Goblin Barrel.
C24_NoMetadataIsHybrid ==
    (/\ classified
     /\ Len(cards) > 0
     /\ NoCardHasMetadata(cards)
     /\ ~in_names(cards, "X-Bow")
     /\ ~in_names(cards, "Mortar")) =>
        /\ deck_type = <<ARCHETYPE_HYBRID>>
        /\ v # <<>>
        /\ v[1].four_card_cycle_cost = 12
        /\ v[1].avg_elixir_x8 = 3 * 8
        /\ v[1].bait_pieces = 0
        /\ ~v[1].has_bait_core
        /\ v[1].bridge_spam_count = 0
        /\ v[1].big_tank_count = 0

\* C24 witness: a deck holding Goblin Barrel, none of whose cards has a
\* metadata entry, has been classified Hybrid.
C24_Witness_BarrelWithoutMetadata ==
    /\ classified
    /\ in_names(cards, "Goblin Barrel")
    /\ Len(cards) > 1
    /\ NoCardHasMetadata(cards)
    /\ deck_type = <<ARCHETYPE_HYBRID>>

----------------------------------------------------------------------------
(* Claims about the aggregations, checked under Spec *)

done == pc = "done"

NumBattles == Len(battles_normalized)
battle(n) == battles_normalized[n]
my_cards_of(b) == b.my_cards
opp_cards_of(b) == b.opp_cards

best_cards == card_stats[1].best_cards
worst_cards == card_stats[1].worst_cards
tough_opp_cards == card_stats[1].tough_opp_cards
easy_opp_cards == card_stats[1].easy_opp_cards
best_decks == deck_stats[1].best_decks
worst_decks == deck_stats[1].worst_decks
tough_matchups == deck_stats[1].tough_matchups
easy_matchups == deck_stats[1].easy_matchups

\* every bucket (or output entry) of the list has games = wins + losses + draws
Balanced(d) ==
    \A i \in 1..Len(d) : d[i].games = d[i].wins + d[i].losses + d[i].draws

\* C4: in the archetype, card and deck aggregations, on the "mine" and on
\* the "opponent" side, every bucket has games = wins + losses + draws:
\* in the dicts as the calls leave them, in the dicts after each iteration
\* of each loop (the dict after k iterations is the loop run on the first
\* k battles or rows), and in every output list.
C4_GamesIsWinsLossesDraws ==
    /\ Balanced(stats_my) /\ Balanced(stats_opp)
    /\ Balanced(my_decks) /\ Balanced(opp_decks)
    /\ Balanced(my_raw) /\ Balanced(opp_raw)
    /\ done =>
        /\ Balanced(best_cards) /\ Balanced(worst_cards)
        /\ Balanced(tough_opp_cards) /\ Balanced(easy_opp_cards)
        /\ Balanced(best_decks) /\ Balanced(worst_decks)
        /\ Balanced(tough_matchups) /\ Balanced(easy_matchups)
        /\ Balanced(my_deck_types) /\ Balanced(opp_deck_types)
        /\ \A k \in 0..NumBattles :
              LET first_k == SubSeq(battles_normalized, 1, k)
              IN /\ Balanced(my_decks_loop(first_k))
                 /\ Balanced(opp_decks_loop(first_k))
                 /\ Balanced(my_raw_loop(first_k))
                 /\ Balanced(opp_raw_loop(first_k))
        /\ LET df == build_battles_dataframe(battles_normalized)
           IN /\ \A k \in 0..Len(rows_my_of(df)) :
                    Balanced(card_stats_loop(SubSeq(rows_my_of(df), 1, k)))
              /\ \A k \in 0..Len(rows_opp_of(df)) :
                    Balanced(card_stats_loop(SubSeq(rows_opp_of(df), 1, k)))

\* C4 witness: a call has ended with an opponent deck bucket of three games,
\* one won, one lost and one drawn, one of them with a result string that
\* is none of win, loss, draw.
C4_Witness_MixedBucket ==
    /\ done
    /\ \E n \in 1..NumBattles : battle(n).result = "WIN"
    /\ \E i \in 1..Len(opp_decks) :
          /\ opp_decks[i].games = 3
          /\ opp_decks[i].wins = 1
          /\ opp_decks[i].losses = 1

IsReversalOf(a, b) ==
    /\ Len(a) = Len(b)
    /\ \A i \in 1..Len(a) : a[i] = b[Len(b) + 1 - i]

\* two entries of the list are tied on (win_rate, games)
HasTie(l) ==
    \E i, j \in 1..Len(l) :
        i < j /\ l[i].win_rate = l[j].win_rate /\ l[i].games = l[j].games

\* C5: worst_cards is the reversal of best_cards, easy_opp_cards of
\* tough_opp_cards, worst_decks of best_decks, easy_matchups of
\* tough_matchups; and when entries are tied on (win_rate, games) the
\* worst/easy list is not the independent ascending sort on the same key.
C5_WorstIsReversalOfBest ==
    done =>
        LET df == build_battles_dataframe(battles_normalized)
        IN /\ IsReversalOf(worst_cards, best_cards)
           /\ IsReversalOf(easy_opp_cards, tough_opp_cards)
           /\ IsReversalOf(worst_decks, best_decks)
           /\ IsReversalOf(easy_matchups, tough_matchups)
           /\ HasTie(best_cards) =>
                 worst_cards #
                     _card_stats_from_rows(rows_my_of(df), min_card_games, FALSE)
           /\ HasTie(tough_opp_cards) =>
                 easy_opp_cards #
                     _card_stats_from_rows(rows_opp_of(df), min_card_games, FALSE)
           /\ HasTie(best_decks) =>
                 worst_decks # sort_by_rate_games(best_decks, FALSE)
           /\ HasTie(tough_matchups) =>
                 easy_matchups # sort_by_rate_games(tough_matchups, FALSE)

\* C5 witness: a call has ended with tied entries in best_cards and in
\* tough_opp_cards.
C5_Witness_TiedEntries ==
    /\ done
    /\ HasTie(best_cards)
    /\ HasTie(tough_opp_cards)

\* C6: in best_cards, tough_opp_cards, best_decks and tough_matchups every
\* entry a and its successor b have a.win_rate > b.win_rate, or equal win
\* rates and a.games >= b.games.
SortedByRateThenGames(l) ==
    \A i \in 1..(Len(l) - 1) :
        \/ rate_lt(l[i + 1].win_rate, l[i].win_rate)
        \/ /\ ~rate_lt(l[i].win_rate, l[i + 1].win_rate)
           /\ l[i].games >= l[i + 1].games

C6_BestListsSortedDescending ==
    done =>
        /\ SortedByRateThenGames(best_cards)
        /\ SortedByRateThenGames(tough_opp_cards)
        /\ SortedByRateThenGames(best_decks)
        /\ SortedByRateThenGames(tough_matchups)

\* C6 witness: a call has ended with best_decks holding two entries of equal
\* win rate of which the second-inserted has more games and comes first.
C6_Witness_RateTieBrokenByGames ==
    /\ done
    /\ Len(my_decks) = 2
    /\ my_decks[1].games < my_decks[2].games
    /\ Len(best_decks) = 2
    /\ best_decks[1].win_rate = best_decks[2].win_rate
    /\ best_decks[1].games > best_decks[2].games

card_in(l, c) == \E j \in 1..Len(l) : l[j].card = c
deck_in(l, k) == \E j \in 1..Len(l) : l[j].deck = k

\* the list holds one entry for each bucket of the dict with games >= m,
\* and nothing else
CardsKeptIffEnoughGames(l, d, m) ==
    /\ \A i \in 1..Len(d) : card_in(l, d[i].key) <=> d[i].games >= m
    /\ \A j \in 1..Len(l) : has_key(d, l[j].card)
    /\ \A i, j \in 1..Len(l) : l[i].card = l[j].card => i = j

DecksKeptIffEnoughGames(l, d, m) ==
    /\ \A i \in 1..Len(d) : deck_in(l, d[i].key) <=> d[i].games >= m
    /\ \A j \in 1..Len(l) : has_key(d, l[j].deck)
    /\ \A i, j \in 1..Len(l) : l[i].deck = l[j].deck => i = j

\* C7: a card (deck) key of the stats dict appears in the card (deck) output
\* lists if and only if its games count is >= min_games; with a threshold
\* of 0, 1 or below no key is dropped.
C7_KeptIffGamesAtLeastMin ==
    done =>
        /\ CardsKeptIffEnoughGames(best_cards, stats_my, min_card_games)
        /\ CardsKeptIffEnoughGames(worst_cards, stats_my, min_card_games)
        /\ CardsKeptIffEnoughGames(tough_opp_cards, stats_opp, min_card_games)
        /\ CardsKeptIffEnoughGames(easy_opp_cards, stats_opp, min_card_games)
        /\ DecksKeptIffEnoughGames(best_decks, my_decks, min_deck_games)
        /\ DecksKeptIffEnoughGames(worst_decks, my_decks, min_deck_games)
        /\ DecksKeptIffEnoughGames(tough_matchups, opp_decks, min_deck_games)
        /\ DecksKeptIffEnoughGames(easy_matchups, opp_decks, min_deck_games)
        /\ min_card_games <= 1 =>
              Len(best_cards) = Len(stats_my) /\ Len(tough_opp_cards) = Len(stats_opp)
        /\ min_deck_games <= 1 =>
              Len(best_decks) = Len(my_decks) /\ Len(tough_matchups) = Len(opp_decks)

\* C7 witness: a call with a negative card threshold has ended with every
\* card kept, one of them with a single game, while the default deck
\* threshold has dropped a deck of two games.
C7_Witness_NegativeThresholdKeepsAll ==
    /\ done
    /\ min_card_games < 0
    /\ \E i \in 1..Len(stats_my) : stats_my[i].games = 1
    /\ Len(best_cards) = Len(stats_my)
    /\ \E i \in 1..Len(my_decks) : my_decks[i].games = 2
    /\ best_decks = <<>>

\* the number of battles whose deck holds the card
BattlesWith(deck_of(_), c) ==
    Cardinality({n \in 1..NumBattles :
                    \E k \in 1..Len(deck_of(battle(n))) : deck_of(battle(n))[k] = c})

\* the occurrences <<battle, place>> of the card in the decks of the battles
\* whose result satisfies the test
Occurrences(deck_of(_), c, result_ok(_)) ==
    UNION {{<<n, k>> : k \in {kk \in 1..Len(deck_of(battle(n))) :
                                 deck_of(battle(n))[kk] = c}} :
           n \in {nn \in 1..NumBattles : result_ok(battle(nn).result)}}

any_result(r) == TRUE
is_win(r) == r = "win"
is_loss(r) == r = "loss"
is_other(r) == r \notin {"win", "loss"}

\* C8, as stated: with min_games = 3 a card in the my_cards of exactly 2
\* battles is in neither best_cards nor worst_cards and a card in the
\* my_cards of exactly 3 battles is in both, also when a deck repeats a name.
C8_Original_TwoBattlesAbsent ==
    (done /\ min_card_games = 3) =>
        \A c \in CardNameSet :
            /\ BattlesWith(my_cards_of, c) = 2 =>
                  ~card_in(best_cards, c) /\ ~card_in(worst_cards, c)
            /\ BattlesWith(my_cards_of, c) = 3 =>
                  card_in(best_cards, c) /\ card_in(worst_cards, c)

\* C8, amended: with min_games = 3 a card in the my_cards of exactly 2
\* battles, once in each, is in neither best_cards nor worst_cards, and a
\* card in the my_cards of exactly 3 battles is in both; a name a deck
\* repeats counts one game per occurrence.
C8_Amended_TwoOccurrencesAbsent ==
    (done /\ min_card_games = 3) =>
        \A c \in CardNameSet :
            /\ (/\ BattlesWith(my_cards_of, c) = 2
                /\ Cardinality(Occurrences(my_cards_of, c, any_result)) = 2) =>
                  ~card_in(best_cards, c) /\ ~card_in(worst_cards, c)
            /\ BattlesWith(my_cards_of, c) = 3 =>
                  card_in(best_cards, c) /\ card_in(worst_cards, c)
            /\ has_key(stats_my, c) =>
                  stats_my[index_of(stats_my, c)].games =
                      Cardinality(Occurrences(my_cards_of, c, any_result))

\* C8 witness: a call with min_games = 3 has ended with one card of exactly
\* 3 battles, listed, and one of exactly 2 battles, once in each, not listed.
C8_Witness_ThreeInTwoOut ==
    /\ done
    /\ min_card_games = 3
    /\ \E c \in CardNameSet :
          BattlesWith(my_cards_of, c) = 3 /\ card_in(best_cards, c)
    /\ \E c \in CardNameSet :
          /\ BattlesWith(my_cards_of, c) = 2
          /\ Cardinality(Occurrences(my_cards_of, c, any_result)) = 2
          /\ ~card_in(best_cards, c)

\* the multiset of the card names of a deck
Multiset(cs) ==
    [c \in CardNameSet |-> Cardinality({k \in 1..Len(cs) : cs[k] = c})]

\* the buckets of the dict are the classes of the battles' decks under
\* multiset equality: no two keys are the same multiset, every battle's deck
\* has the bucket of its multiset, and a bucket's games are the battles of
\* that multiset
BucketsAreMultisetClasses(d, deck_of(_)) ==
    /\ \A i, j \in 1..Len(d) :
          Multiset(d[i].key) = Multiset(d[j].key) => i = j
    /\ \A n \in 1..NumBattles :
          \E i \in 1..Len(d) : Multiset(d[i].key) = Multiset(deck_of(battle(n)))
    /\ \A i \in 1..Len(d) :
          d[i].games =
              Cardinality({n \in 1..NumBattles :
                              Multiset(deck_of(battle(n))) = Multiset(d[i].key)})

\* C9: in compute_deck_performance two battles contribute to the same
\* my-deck (opponent-deck) bucket if and only if their my_cards (opp_cards)
\* are equal as multisets of names.
C9_DeckBucketIffSameMultiset ==
    done =>
        /\ BucketsAreMultisetClasses(my_decks, my_cards_of)
        /\ BucketsAreMultisetClasses(opp_decks, opp_cards_of)

\* C9 witness: a call has ended in which two battles with the same cards in
\* different orders share a bucket of two games, and a third battle, whose
\* deck holds one of the cards twice, has its own.
C9_Witness_PermutationAndMultiplicity ==
    /\ done
    /\ \E n, m \in 1..NumBattles :
          /\ battle(n).my_cards # battle(m).my_cards
          /\ Multiset(battle(n).my_cards) = Multiset(battle(m).my_cards)
    /\ \E i \in 1..Len(my_decks) : my_decks[i].games = 2
    /\ has_key(my_decks, <<"Golem", "Golem">>)

\* the bucket's counters are the occurrences counted by result: wins those
\* with a result satisfying won, losses those satisfying lost, draws the rest
CardBucketsCount(d, deck_of(_), won(_), lost(_)) ==
    /\ \A c \in CardNameSet :
          Occurrences(deck_of, c, any_result) # {} => has_key(d, c)
    /\ \A i \in 1..Len(d) :
          /\ d[i].wins = Cardinality(Occurrences(deck_of, d[i].key, won))
          /\ d[i].losses = Cardinality(Occurrences(deck_of, d[i].key, lost))
          /\ d[i].draws = Cardinality(Occurrences(deck_of, d[i].key, is_other))

DeckBucketsCount(d, deck_of(_), won(_), lost(_)) ==
    \A i \in 1..Len(d) :
        LET mine == {n \in 1..NumBattles :
                        Multiset(deck_of(battle(n))) = Multiset(d[i].key)}
        IN /\ d[i].wins = Cardinality({n \in mine : won(battle(n).result)})
           /\ d[i].losses = Cardinality({n \in mine : lost(battle(n).result)})
           /\ d[i].draws = Cardinality({n \in mine : is_other(battle(n).result)})

\* C10: in the card and deck engines a battle the player won adds a loss to
\* the bucket of each opp_cards card and to the opponent deck bucket, a
\* battle the player lost adds a win, any other result a draw; the player's
\* own buckets get the result unchanged.
C10_OpponentSideInverted ==
    done =>
        /\ CardBucketsCount(stats_my, my_cards_of, is_win, is_loss)
        /\ CardBucketsCount(stats_opp, opp_cards_of, is_loss, is_win)
        /\ DeckBucketsCount(my_decks, my_cards_of, is_win, is_loss)
        /\ DeckBucketsCount(opp_decks, opp_cards_of, is_loss, is_win)

\* C10 witness: a call has ended after a won, a lost and an unrecognised
\* battle against the same opponent card, whose bucket has a loss, a win
\* and a draw.
C10_Witness_WinLossOther ==
    /\ done
    /\ NumBattles = 3
    /\ battle(1).result = "win"
    /\ battle(2).result = "loss"
    /\ battle(3).result = "WIN"
    /\ \E i \in 1..Len(stats_opp) :
          stats_opp[i].wins = 1 /\ stats_opp[i].losses = 1 /\ stats_opp[i].draws = 1

----------------------------------------------------------------------------
(* Claims about summarize_deck_types, checked under Spec *)

\* the battles before battle n
battles_before(n) == SubSeq(battles_normalized, 1, n - 1)

\* the counters of the bucket of the key, all 0 when the dict has none
counters_of(d, key) ==
    IF has_key(d, key)
    THEN LET s == d[index_of(d, key)] IN <<s.games, s.wins, s.losses, s.draws>>
    ELSE <<0, 0, 0, 0>>

\* what one iteration adds to the bucket of the key
increment_of(d_before, d_after, key) ==
    [k \in 1..4 |-> counters_of(d_after, key)[k] - counters_of(d_before, key)[k]]

\* one game and one win, loss or draw by the player's own result, whatever
\* its letter case
own_increment(result) ==
    IF lower(result) = "win" THEN <<1, 1, 0, 0>>
    ELSE IF lower(result) = "loss" THEN <<1, 0, 1, 0>>
    ELSE <<1, 0, 0, 1>>

\* the increments battle n makes to the bucket of its own archetype in
\* my_raw and to the bucket of the opponent's archetype in opp_raw
my_type_increment(n) ==
    LET before == my_raw_loop(battles_before(n))
    IN increment_of(before, my_raw_step(before, battle(n)),
                    classify_deck(battle(n).my_cards))

opp_type_increment(n) ==
    LET before == opp_raw_loop(battles_before(n))
    IN increment_of(before, opp_raw_step(before, battle(n)),
                    classify_deck(battle(n).opp_cards))

\* C11: in summarize_deck_types, for each battle, the bucket of
\* classify_deck(my_cards) in my_raw and the bucket of classify_deck(opp_cards)
\* in opp_raw receive the same increment, the one of the player's own result
\* (a win adds a win to both, a loss a loss, anything else a draw); the
\* dicts the call ends with are the sums of these increments.
C11_OppTypeBucketNotInverted ==
    done =>
        /\ \A n \in 1..NumBattles :
              /\ my_type_increment(n) = opp_type_increment(n)
              /\ opp_type_increment(n) = own_increment(battle(n).result)
        /\ my_raw = my_raw_loop(battles_normalized)
        /\ opp_raw = opp_raw_loop(battles_normalized)
        /\ \A i \in 1..Len(opp_raw) :
              /\ opp_raw[i].wins =
                    Cardinality({n \in 1..NumBattles :
                        /\ classify_deck(battle(n).opp_cards) = opp_raw[i].key
                        /\ lower(battle(n).result) = "win"})
              /\ opp_raw[i].losses =
                    Cardinality({n \in 1..NumBattles :
                        /\ classify_deck(battle(n).opp_cards) = opp_raw[i].key
                        /\ lower(battle(n).result) = "loss"})

\* C11 witness: a call has ended with a battle the player won whose two
\* decks have different archetypes, and the opponent archetype's bucket has
\* wins and no loss.
C11_Witness_WonAgainstOtherType ==
    /\ done
    /\ \E n \in 1..NumBattles :
          /\ battle(n).result = "win"
          /\ classify_deck(battle(n).my_cards) # classify_deck(battle(n).opp_cards)
          /\ \E i \in 1..Len(opp_raw) :
                /\ opp_raw[i].key = classify_deck(battle(n).opp_cards)
                /\ opp_raw[i].wins > 0
                /\ opp_raw[i].losses = 0

\* the opponent-side result the claim names: loss if win, win if loss,
\* draw if draw (and, as the engines have it, draw for anything else)
invert(result) ==
    IF result = "win" THEN "loss"
    ELSE IF result = "loss" THEN "win"
    ELSE "draw"

\* the battles whose opponent deck has the archetype
BattlesAgainstType(t) ==
    {n \in 1..NumBattles : classify_deck(battle(n).opp_cards) = t}

\* the battles whose opponent deck is the deck of the key
BattlesAgainstDeck(k) ==
    {n \in 1..NumBattles : Multiset(battle(n).opp_cards) = Multiset(k)}

\* every entry of the opponent card lists counts the inverted results of
\* the occurrences of its card
OppCardEntriesInverted(l) ==
    \A j \in 1..Len(l) :
        /\ l[j].wins = Cardinality(Occurrences(opp_cards_of, l[j].card, is_loss))
        /\ l[j].losses = Cardinality(Occurrences(opp_cards_of, l[j].card, is_win))

\* every entry of the opponent deck lists counts the inverted results of
\* the battles against its deck
OppDeckEntriesInverted(l) ==
    \A j \in 1..Len(l) :
        /\ l[j].wins =
              Cardinality({n \in BattlesAgainstDeck(l[j].deck) :
                              invert(battle(n).result) = "win"})
        /\ l[j].losses =
              Cardinality({n \in BattlesAgainstDeck(l[j].deck) :
                              invert(battle(n).result) = "loss"})

\* every entry of opp_deck_types counts the results, made by the operator
\* given from the lowercased result, of the battles against its archetype
OppTypeEntriesCount(as_win, as_loss) ==
    \A j \in 1..Len(opp_deck_types) :
        /\ opp_deck_types[j].wins =
              Cardinality({n \in BattlesAgainstType(opp_deck_types[j].type) :
                              lower(battle(n).result) = as_win})
        /\ opp_deck_types[j].losses =
              Cardinality({n \in BattlesAgainstType(opp_deck_types[j].type) :
                              lower(battle(n).result) = as_loss})

\* C12, as stated: every opponent-side bucket, those of opp_deck_types
\* included, is updated with invert(result): a battle the player won counts
\* as a loss of the opponent card, deck and archetype, a battle the player
\* lost as a win.
C12_Original_AllOppBucketsInverted ==
    done =>
        /\ OppCardEntriesInverted(tough_opp_cards)
        /\ OppCardEntriesInverted(easy_opp_cards)
        /\ OppDeckEntriesInverted(tough_matchups)
        /\ OppDeckEntriesInverted(easy_matchups)
        /\ OppTypeEntriesCount("loss", "win")

\* C12, amended: the opponent card and deck buckets are updated with
\* invert(result); the opponent archetype buckets of opp_deck_types are
\* updated with the player's own result, not inverted.
C12_Amended_CardsAndDecksInvertedTypesNot ==
    done =>
        /\ OppCardEntriesInverted(tough_opp_cards)
        /\ OppCardEntriesInverted(easy_opp_cards)
        /\ OppDeckEntriesInverted(tough_matchups)
        /\ OppDeckEntriesInverted(easy_matchups)
        /\ OppTypeEntriesCount("win", "loss")

\* C12 witness: a call has ended after battles the player won and none
\* lost; the opponent deck listed has losses and no win, the opponent
\* archetype listed has wins and no loss.
C12_Witness_WonBattleBothListings ==
    /\ done
    /\ \E n \in 1..NumBattles : battle(n).result = "win"
    /\ \A n \in 1..NumBattles : battle(n).result # "loss"
    /\ \E j \in 1..Len(tough_matchups) :
          tough_matchups[j].losses > 0 /\ tough_matchups[j].wins = 0
    /\ \E j \in 1..Len(opp_deck_types) :
          opp_deck_types[j].wins > 0 /\ opp_deck_types[j].losses = 0

\* the battles whose deck, taken by the operator given, has the archetype
BattlesOfType(deck_of(_), t) ==
    {n \in 1..NumBattles : classify_deck(deck_of(battle(n))) = t}

\* the list has exactly one entry for each archetype that classified a deck
\* of the battles, with that many games, and none for any other
TypesUnfiltered(l, deck_of(_)) ==
    /\ \A n \in 1..NumBattles :
          \E j \in 1..Len(l) : l[j].type = classify_deck(deck_of(battle(n)))
    /\ \A i, j \in 1..Len(l) : l[i].type = l[j].type => i = j
    /\ \A j \in 1..Len(l) :
          /\ l[j].games > 0
          /\ l[j].games = Cardinality(BattlesOfType(deck_of, l[j].type))

SortedByGamesDescending(l) ==
    \A i, j \in 1..Len(l) : i < j => l[i].games >= l[j].games

\* C13: my_deck_types and opp_deck_types are never filtered by a sample-size
\* threshold (whatever min_card_games and min_deck_games are, every
\* archetype that classified at least one deck of the list has an entry and
\* no archetype with zero games has one) and each list is ordered by games
\* descending.
C13_TypesUnfilteredSortedByGames ==
    done =>
        /\ TypesUnfiltered(my_deck_types, my_cards_of)
        /\ TypesUnfiltered(opp_deck_types, opp_cards_of)
        /\ SortedByGamesDescending(my_deck_types)
        /\ SortedByGamesDescending(opp_deck_types)

\* C13 witness: a call with both thresholds 3 has ended with two archetypes
\* listed, the first with 2 games and the lower win rate, the second with 1
\* game, below both thresholds, and the higher win rate.
C13_Witness_OneGameTypeListedLast ==
    /\ done
    /\ min_card_games = 3
    /\ min_deck_games = 3
    /\ Len(my_deck_types) = 2
    /\ my_deck_types[1].games = 2
    /\ my_deck_types[2].games = 1
    /\ rate_lt(my_deck_types[1].win_rate, my_deck_types[2].win_rate)

----------------------------------------------------------------------------
(* Claims about the reading of the battle fields *)

\* the battle list with every result string in lower case
lowered(battles) ==
    [i \in 1..Len(battles) |-> [battles[i] EXCEPT !.result = lower(@)]]

\* C14, as stated: the result field is read case-insensitively in every
\* analysis of compute_user_analytics: the summary, the card lists, the
\* deck lists and the archetype lists of a battle list are those of the
\* list with its result strings in lower case. Checked under Spec, it is
\* violated: compute_summary counts "WIN" as nothing and the card and deck
\* engines count it as a draw; only summarize_deck_types lowercases.
C14_Original_ResultCaseInsensitive ==
    done =>
        LET low == lowered(battles_normalized)
            df == build_battles_dataframe(low)
        IN /\ summary = <<compute_summary(df)>>
           /\ card_stats =
                 <<compute_card_performance_out(card_stats_loop(rows_my_of(df)),
                                                card_stats_loop(rows_opp_of(df)),
                                                min_card_games)>>
           /\ deck_stats =
                 <<compute_deck_performance_out(my_decks_loop(low),
                                                opp_decks_loop(low),
                                                min_deck_games)>>
           /\ my_deck_types = _finalize_stats(my_raw_loop(low))
           /\ opp_deck_types = _finalize_stats(opp_raw_loop(low))

\* the battles whose dict has no result string, or none of the card list
NoResult == {n \in 1..NumBattles : battle(n).keys["result"] # "set"}
NoMyCards == {n \in 1..NumBattles : battle(n).keys["my_cards"] # "set"}

\* C15, as stated: compute_user_analytics never raises for a battle dict
\* whose result, my_cards or opp_cards is missing or None; a missing or
\* None card list is the empty deck and a missing result a draw in the
\* summary, card, deck and archetype computations. Checked under
\* SpecRecords, it is violated: compute_deck_performance raises KeyError
\* on a missing result and TypeError on a None card list, and
\* compute_card_performance raises TypeError on a NaN cell.
C15_Original_NeverRaisesOnMissingFields ==
    /\ raised = <<>>
    /\ done =>
          /\ NoMyCards # {} =>
                has_key(my_decks, <<>>) /\ has_key(my_raw, ARCHETYPE_HYBRID)
          /\ summary[1].draws = Cardinality(NoResult)

\* C16, as stated: in the summary of compute_summary every battle whose
\* result is absent or not one of win, loss, draw is counted as a draw, so
\* games_played = wins + losses + draws. Checked under Spec, it is
\* violated: a result "WIN" is counted in games_played and in none of the
\* three.
C16_Original_SummaryCountsOthersAsDraws ==
    summary # <<>> =>
        /\ summary[1].games_played =
              summary[1].wins + summary[1].losses + summary[1].draws
        /\ summary[1].draws =
              Cardinality({n \in 1..NumBattles :
                              battle(n).result \notin {"win", "loss"}})

\* C17: compute_user_analytics applied to the empty battle list does not
\* raise and returns a summary with games_played, wins, losses and draws 0
\* and win_rate 0.0, and empty lists for the four card lists, the four deck
\* lists and the two archetype lists.
C17_EmptyListAllZero ==
    battles_normalized = <<>> =>
        /\ raised = <<>>
        /\ pc # "raised"
        /\ summary # <<>> =>
              summary = <<[games_played |-> 0, wins |-> 0, losses |-> 0,
                           draws |-> 0, win_rate |-> <<0, 1>>]>>
        /\ card_stats # <<>> =>
              card_stats = <<[best_cards |-> <<>>, worst_cards |-> <<>>,
                              tough_opp_cards |-> <<>>, easy_opp_cards |-> <<>>]>>
        /\ deck_stats # <<>> =>
              deck_stats = <<[best_decks |-> <<>>, worst_decks |-> <<>>,
                              tough_matchups |-> <<>>, easy_matchups |-> <<>>]>>
        /\ done =>
              /\ summary # <<>> /\ card_stats # <<>> /\ deck_stats # <<>>
              /\ my_deck_types = <<>>
              /\ opp_deck_types = <<>>

\* C17 witness: a call on the empty list with thresholds that would keep
\* every bucket has ended.
C17_Witness_EmptyListDone ==
    /\ done
    /\ battles_normalized = <<>>
    /\ min_card_games < 0
    /\ min_deck_games < 0

----------------------------------------------------------------------------
(* Claims about the win rates *)

\* the rate is wins / games when games > 0 and 0 when games = 0: a fraction
\* with a denominator that is not 0, between 0 and 1
RateIsWinsOverGames(rate, wins, games) ==
    /\ rate[2] > 0
    /\ 0 <= rate[1] /\ rate[1] <= rate[2]
    /\ games > 0 => rate[1] * games = wins * rate[2]
    /\ games = 0 => rate[1] = 0

EntriesRateIsWinsOverGames(l) ==
    \A j \in 1..Len(l) : RateIsWinsOverGames(l[j].win_rate, l[j].wins, l[j].games)

----------------------------------------------------------------------------
(* Conservation of counts across the analyses of one call *)

\* the sum of one counter over the entries of an output list
field_sum(l, f) == sum([i \in 1..Len(l) |-> l[i][f]])

\* the games of the archetype lists, of the summary and, with
\* min_deck_games <= 1, of the deck lists all count every battle once
GamesConserved ==
    done =>
        /\ field_sum(my_deck_types, "games") = NumBattles
        /\ field_sum(opp_deck_types, "games") = NumBattles
        /\ summary[1].games_played = NumBattles
        /\ min_deck_games <= 1 =>
              /\ field_sum(best_decks, "games") = NumBattles
              /\ field_sum(tough_matchups, "games") = NumBattles

\* C25 as stated: the games of my_deck_types, of opp_deck_types and of the
\* summary all equal the number of battles; with min_deck_games <= 1 so do
\* the games of best_decks and of tough_matchups, and the wins summed over
\* my_deck_types equal the wins summed over best_decks and summary.wins.
\* Checked under Spec, it is violated: for a result "WIN" the archetype
\* list counts a win, best_decks a draw and the summary nothing.
C25_Original_CountsConserved ==
    /\ GamesConserved
    /\ (done /\ min_deck_games <= 1) =>
          /\ field_sum(my_deck_types, "wins") = field_sum(best_decks, "wins")
          /\ field_sum(my_deck_types, "wins") = summary[1].wins

----------------------------------------------------------------------------
(* Claims about successive calls, checked under SpecCalls *)

\* two calls with equal arguments returned equal analytics, whatever was
\* called before and between them
EqualArgumentsEqualAnalytics ==
    \A i, j \in 1..Len(returned) :
        returned[i][1] = returned[j][1] => returned[i][2] = returned[j][2]

\* a step of a call, from its first to its return, leaves the battle list,
\* the thresholds and the metadata table as they are
CallLeavesInputs ==
    /\ _CARD_META_BY_NAME' = _CARD_META_BY_NAME
    /\ pc # "returned" =>
          /\ battles_normalized' = battles_normalized
          /\ min_card_games' = min_card_games
          /\ min_deck_games' = min_deck_games

\* C20: compute_user_analytics is a deterministic function of its arguments
\* with no state carried between calls: two calls with equal battle lists
\* and thresholds return equal results whatever calls were made before or
\* between them, and a call leaves its battle records and the metadata
\* table unchanged.
C20_CallsIndependent ==
    /\ [](EqualArgumentsEqualAnalytics)
    /\ [][CallLeavesInputs]_vars

\* C20 witness: three calls have returned, the first and the third with
\* the same non-empty battle list and the second with another.
C20_Witness_SameArgumentsAroundAnother ==
    /\ Len(returned) = 3
    /\ returned[1][1] = returned[3][1]
    /\ returned[2][1] # returned[1][1]
    /\ returned[1][1][1] # <<>>
    /\ returned[2][1][1] # <<>>

----------------------------------------------------------------------------
(* Claims about the coach graph, checked under SpecCoach *)

\* the question is one of stop, exit, quit up to case, with any whitespace
\* before and after it: read off the characters, without strip()
IsStopQuestion(question) ==
    LET q == IF question = <<>> THEN <<>> ELSE question[1]
    IN \E a \in 0..Len(q) : \E b \in a..Len(q) :
          /\ \A i \in 1..a : q[i] \in Whitespace
          /\ \A i \in (b + 1)..Len(q) : q[i] \in Whitespace
          /\ \E w \in StopWords :
                /\ Len(w) = b - a
                /\ \A i \in 1..Len(w) : lower_char(q[a + i]) = w[i]

\* the node that ran after the i-th one, or, after the last one, where the
\* graph is now
node_after(i) ==
    IF i < Len(coach_ran) THEN coach_ran[i + 1].node ELSE coach_node

CoachOrder == <<"ensure_meta", "ask_for_tag", "ensure_user", "ask_for_question">>

\* C26: the nodes of the coach graph run in the order ensure_meta,
\* ask_for_tag, ensure_user, ask_for_question; after every ask_for_question
\* qa_answer runs if and only if the question, trimmed and lower-cased, is
\* not stop, exit or quit; after every qa_answer that returned the graph is
\* back at ask_for_question; and the graph is at END only directly after an
\* ask_for_question whose question is stop, exit or quit.
C26_CoachGraphOrderAndStop ==
    /\ \A i \in 1..Len(coach_ran) :
          /\ i <= Len(CoachOrder) => coach_ran[i].node = CoachOrder[i]
          /\ coach_ran[i].node = "ask_for_question" =>
                /\ node_after(i) = "qa_answer" <=>
                      ~IsStopQuestion(coach_ran[i].question)
                /\ node_after(i) = "END" <=>
                      IsStopQuestion(coach_ran[i].question)
          /\ coach_ran[i].node = "qa_answer" =>
                /\ i > 1
                /\ coach_ran[i - 1].node = "ask_for_question"
                /\ ~IsStopQuestion(coach_ran[i].question)
                /\ coach_ran[i].returned => node_after(i) = "ask_for_question"
    /\ coach_node = "END" =>
          /\ coach_ran # <<>>
          /\ coach_ran[Len(coach_ran)].node = "ask_for_question"
          /\ IsStopQuestion(coach_ran[Len(coach_ran)].question)

\* C26 witness: a question was answered, then " Stop" followed by a tab was
\* typed, and the graph is at END without another qa_answer.
C26_Witness_AnsweredThenStopped ==
    /\ coach_node = "END"
    /\ Len(coach_ran) = 6
    /\ coach_ran[5].node = "qa_answer"
    /\ coach_ran[6].question = <<<<" ", "S", "t", "o", "p", "\t">>>>

----------------------------------------------------------------------------
(* Claims about fetch_meta_battles_node, checked under SpecFetch *)

InputFetched == meta_state.fetched_player_tags
InputRaw == meta_state.meta_raw_battles

\* the battles the call has added for the tag
NewBattlesOf(t) ==
    {k \in (Len(InputRaw) + 1)..Len(meta_raw) : meta_raw[k]._meta_source_tag = t}

\* the calls of get_player_battlelog that returned, for the tag
FetchedOk(t) == {i \in 1..Len(fetch_log) : fetch_log[i].tag = t /\ fetch_log[i].ok}

ErrorNotesOf(t) ==
    {k \in 1..Len(notes) : notes[k].kind = "error" /\ notes[k].tag = t}

\* what holds of the locals once the node has copied the state
FetchNodeInvariant ==
    /\ \A i \in 1..Len(fetch_log) : fetch_log[i].tag \notin InputFetched
    /\ \A i, j \in 1..Len(fetch_log) :
          (i < j /\ fetch_log[i].ok) => fetch_log[j].tag # fetch_log[i].tag
    /\ InputFetched \subseteq fetched
    /\ \A t \in fetched \ InputFetched : FetchedOk(t) # {}
    /\ \A t \in Tags :
          /\ Cardinality(NewBattlesOf(t)) <= 10
          /\ FetchedOk(t) = {} => NewBattlesOf(t) = {}
          /\ Cardinality(ErrorNotesOf(t)) =
                Cardinality({i \in 1..Len(fetch_log) :
                                fetch_log[i].tag = t /\ ~fetch_log[i].ok})
    /\ Len(meta_raw) >= Len(InputRaw)
    /\ SubSeq(meta_raw, 1, Len(InputRaw)) = InputRaw
    /\ \A k \in (Len(InputRaw) + 1)..Len(meta_raw) :
          meta_raw[k]._meta_source_tag \in fetched \ InputFetched
    /\ fetch_pc = "returned" =>
          \A k \in 1..Len(selected) :
             LET tag == selected[k]
             IN (IF tag \in {<<>>, <<"">>} THEN FALSE
                 ELSE tag[1] \notin InputFetched) =>
                   \/ \E i \in 1..Len(fetch_log) : fetch_log[i].at = k
                   \/ \E i \in FetchedOk(tag[1]) : fetch_log[i].at < k

\* the step of a fetch that raised
FetchRaisedStep ==
    /\ Len(fetch_log') = Len(fetch_log) + 1
    /\ ~fetch_log'[Len(fetch_log')].ok

\* C27: in fetch_meta_battles_node a tag in fetched_player_tags, or fetched
\* successfully earlier in the same list, is never fetched again; a tag is
\* added to the fetched tags only after its log was fetched; a fetch that
\* raises adds an error note and no battle, leaves the tag out and the loop
\* goes on to the remaining players; each newly fetched tag adds at most
\* 10 battles, after the earlier battles, which stay as they were.
C27_FetchOncePerTagAtMostTen ==
    /\ [](fetch_pc \in {"loop", "returned", "raised"} => FetchNodeInvariant)
    /\ [][FetchRaisedStep =>
            /\ fetched' = fetched
            /\ meta_raw' = meta_raw
            /\ Len(notes') = Len(notes) + 1
            /\ notes'[Len(notes')].kind = "error"
            /\ notes'[Len(notes')].tag = fetch_log'[Len(fetch_log')].tag
            /\ SubSeq(notes', 1, Len(notes)) = notes
            /\ fetch_pc' = "loop"
            /\ p_index' = p_index + 1]_vars

\* C27 witness: the node has returned after the fetch of #A raised, the
\* fetch of #B added 10 battles after an earlier one, and the second #B of
\* the list was skipped.
C27_Witness_RaisedThenFetchedThenSkipped ==
    /\ fetch_pc = "returned"
    /\ selected = <<<<"#A">>, <<"#B">>, <<"#B">>>>
    /\ InputRaw = <<EarlierBattle>>
    /\ fetch_log = <<[tag |-> "#A", ok |-> FALSE, at |-> 1],
                     [tag |-> "#B", ok |-> TRUE, at |-> 2]>>
    /\ Cardinality(NewBattlesOf("#B")) = 10
    /\ fetched = {"#B"}

----------------------------------------------------------------------------
(* Claims about classify_question_node, checked under SpecQuestion *)

\* the cases in which the reply gives no category of CATEGORIES
NoValidCategory ==
    /\ raw_reply # <<>>
    /\ \/ raw_reply[1].kind # "json_object"
       \/ raw_reply[1].category \notin {<<c>> : c \in CATEGORIES}

\* what the state holds after a return
QuestionClassified ==
    question_pc = "returned" =>
        /\ question_state.question_category \in
              {<<c>> : c \in CATEGORIES \cup {"other"}}
        /\ question_state.question_data_needs # <<>>
        /\ question_state.question_data_needs[1].type = "list"
        /\ NoValidCategory => question_state.question_category = <<"other">>

\* C28: classify_question_node never raises, whatever the model call does
\* (raises, returns text that is not JSON, JSON that is not an object, an
\* unknown category, a data_needs that is missing, null or not a list); in
\* the failure cases the category is "other", and on return
\* question_category is in CATEGORIES or "other" and question_data_needs is
\* a list. Checked under SpecQuestion, it is violated: with a category of
\* CATEGORIES and a data_needs that is null or a number, line 260 raises
\* TypeError.
C28_Original_NeverRaises ==
    /\ question_raised = <<>>
    /\ question_pc # "raised"
    /\ QuestionClassified

====
